---- MODULE Spec2Model ----
(***************************************************************************)
(* Model of the Avalon backend: the game engine (internal/games), the      *)
(* snapshot/event store it persists to (internal/store), the websocket     *)
(* event handler and the Hub coordinator (internal/websocket).             *)
(***************************************************************************)
EXTENDS Integers, Sequences, FiniteSets, TLC

(***************************************************************************)
(* Program constants.                                                      *)
(***************************************************************************)
PhaseLobby == "lobby"
PhaseTeamSelection == "team_selection"
PhaseTeamVote == "team_vote"
PhaseMissionVote == "mission_vote"
PhaseFinished == "finished"

ActionStartGame == "start_game"
ActionProposeTeam == "propose_team"
ActionVote == "vote"

MinPlayers == 5
MaxPlayers == 10
FailThreshold == 3
SuccessThreshold == 3

\* NewEngine: ClassicAvalonConfig() leaves TeamSizes nil, so it is set here.
ConfigTeamSizes == <<2, 3, 2, 3, 3>>

\* game_players of the one game, in room join order (GetGamePlayerIDsInOrder):
\* a game of five and a game of six.
GamePlayerIDs == <<"p1", "p2", "p3", "p4", "p5">>
SixPlayerIDs == <<"p1", "p2", "p3", "p4", "p5", "p6">>

\* The room players that can be seated in a game, in room join order.
RoomPlayerIDs ==
  <<"p1", "p2", "p3", "p4", "p5", "p6", "p7", "p8", "p9", "p10", "p11">>

\* The limiter keys: the addresses the sessions connect from.
RateKeys == {"ip1", "ip2"}

\* An id that is no player of the game.
Outsider == "x"

GameID == "g1"

\* store.LobbyStateJSON: the payload of the snapshot CreateGame writes.
LobbyStateJSON == [k \in {"phase"} |-> PhaseLobby]

(***************************************************************************)
(* Helpers over sequences and maps.                                        *)
(***************************************************************************)
Range(s) == {s[i] : i \in DOMAIN s}

EmptyMap == <<>>

MapPut(m, k, v) == [x \in (DOMAIN m) \cup {k} |-> IF x = k THEN v ELSE m[x]]

CountValue(m, v) == Cardinality({k \in DOMAIN m : m[k] = v})

(***************************************************************************)
(* GameState, its JSON form and back.                                      *)
(***************************************************************************)
\* The zero value of the GameState struct.
ZeroState ==
  [game_id |-> "", phase |-> "", status |-> "", round_index |-> 0,
   leader_index |-> 0, player_ids |-> <<>>, roles |-> EmptyMap,
   proposed_team |-> <<>>, team_votes |-> EmptyMap, mission_votes |-> EmptyMap,
   mission_results |-> <<>>, reject_count |-> 0, winner |-> "", version |-> 0]

AlwaysKeys ==
  {"game_id", "phase", "status", "round_index", "leader_index", "player_ids",
   "reject_count", "version"}

\* Keys ToMap writes only for a non-empty value.
OptionalKeys ==
  {"roles", "proposed_team", "team_votes", "mission_votes", "mission_results",
   "winner"}

IsEmptyValue(s, k) ==
  CASE k = "roles" -> DOMAIN s.roles = {}
    [] k = "proposed_team" -> Len(s.proposed_team) = 0
    [] k = "team_votes" -> DOMAIN s.team_votes = {}
    [] k = "mission_votes" -> DOMAIN s.mission_votes = {}
    [] k = "mission_results" -> Len(s.mission_results) = 0
    [] k = "winner" -> s.winner = ""
    [] OTHER -> FALSE

ToMap(s) ==
  [k \in AlwaysKeys \cup {o \in OptionalKeys : ~IsEmptyValue(s, o)} |-> s[k]]

\* Every key StateFromMap reads; a key it does not know (team_sizes) is dropped.
StateFromMap(m) ==
  [k \in DOMAIN ZeroState |-> IF k \in DOMAIN m THEN m[k] ELSE ZeroState[k]]

\* The Go type of the value ToMap puts under a key.
ToMapType(k) ==
  CASE k \in {"game_id", "phase", "status", "winner"} -> "string"
    [] k \in {"round_index", "leader_index", "reject_count", "version"} -> "int"
    [] k \in {"player_ids", "proposed_team", "mission_results"} -> "[]string"
    [] OTHER -> "map[string]string"

\* encoding/json: the type Unmarshal into map[string]interface{} gives the
\* value that Marshal wrote for a value of type t.
JSONType(t) ==
  CASE t = "int" -> "float64"
    [] t = "[]string" -> "[]interface{}"
    [] t = "map[string]string" -> "map[string]interface{}"
    [] OTHER -> t

\* The types the assertions of StateFromMap take: .(string), floatToInt,
\* stringSlice, stringMap.
floatToInt == {"float64", "int"}
stringSlice == {"[]string", "[]interface{}"}
stringMap == {"map[string]interface{}"}
Asserted(k) ==
  CASE k \in {"game_id", "phase", "status", "winner"} -> {"string"}
    [] k \in {"round_index", "leader_index", "reject_count", "version"} -> floatToInt
    [] k \in {"player_ids", "proposed_team", "mission_results"} -> stringSlice
    [] OTHER -> stringMap

\* StateFromMap of a map whose value under key k has the type typeOf[k]: a
\* value of a type the assertion does not take leaves the field zero.
StateFromTypedMap(m, typeOf) ==
  [k \in DOMAIN ZeroState |->
     IF k \in DOMAIN m /\ typeOf[k] \in Asserted(k) THEN m[k] ELSE ZeroState[k]]

\* StateFromMap(s.ToMap()): the map as ToMap built it.
FromToMap(s) ==
  StateFromTypedMap(ToMap(s), [k \in DOMAIN ZeroState |-> ToMapType(k)])

\* StateFromMap of the map the store decodes from the JSON it encoded.
FromStoredMap(s) ==
  StateFromTypedMap(ToMap(s), [k \in DOMAIN ZeroState |-> JSONType(ToMapType(k))])

\* Mutant: the leader index wraps around after the second player.
LeaderPlayerIDOfTwo(s) ==
  IF s.leader_index < 0 \/ s.leader_index >= Len(s.player_ids)
  THEN ""
  ELSE s.player_ids[(s.leader_index % 2) + 1]

LeaderPlayerID(s) ==
  IF s.leader_index < 0 \/ s.leader_index >= Len(s.player_ids)
  THEN ""
  ELSE s.player_ids[s.leader_index + 1]

\* Mutant: the membership test accepts every id.
isPlayerInGameAny(s, id) == TRUE

isPlayerInGame(s, id) == id \in Range(s.player_ids)

\* Mutant: every player counts as a member of the proposed team.
isOnProposedTeamAny(s, id) == TRUE

isOnProposedTeam(s, id) == id \in Range(s.proposed_team)

getAllowedActions(phase) ==
  CASE phase = PhaseLobby -> {ActionStartGame}
    [] phase = PhaseTeamSelection -> {ActionProposeTeam}
    [] phase = PhaseTeamVote -> {ActionVote}
    [] phase = PhaseMissionVote -> {ActionVote}
    [] OTHER -> {}

DefaultTeamSizesForPlayerCount(n) ==
  CASE n = 5 -> <<2, 3, 2, 3, 3>>
    [] n = 6 -> <<2, 3, 4, 3, 4>>
    [] n = 7 -> <<2, 3, 3, 4, 4>>
    [] n \in {8, 9, 10} -> <<3, 4, 4, 5, 5>>
    [] OTHER -> <<2, 3, 2, 3, 3>>

(***************************************************************************)
(* Moves.  A payload is the decoded JSON object of a client message:       *)
(* "none" stands for a missing key, team is the team_ids array.            *)
(***************************************************************************)
NoPayload == [action |-> "none", approved |-> "none", success |-> "none",
              has_team |-> FALSE, team |-> <<>>]

VotePayload(approved, success) ==
  [NoPayload EXCEPT !.approved = approved, !.success = success]

ActionPayload(action) == [NoPayload EXCEPT !.action = action]

ProposePayload(team) ==
  [NoPayload EXCEPT !.action = ActionProposeTeam, !.has_team = TRUE, !.team = team]

\* The result of the rules: err = "" when the move is legal.
Rejected(msg) == [err |-> msg, next |-> ZeroState, event |-> ""]

Accepted(next, event) == [err |-> "", next |-> next, event |-> event]

(***************************************************************************)
(* Engine rules: the pure part of ApplyMove, on the state it has loaded.   *)
(***************************************************************************)
\* Mutant: half of the players approving is enough.
TeamApprovedAtHalf(next) ==
  CountValue(next.team_votes, "approve") >= Len(next.player_ids) \div 2

\* approveCount > len(next.PlayerIDs)/2, in integer division.
TeamApproved(next) ==
  CountValue(next.team_votes, "approve") > Len(next.player_ids) \div 2

\* Mutant: a rejection is not counted.
RejectTeamUncounted(next) ==
  [next EXCEPT !.phase = PhaseTeamSelection,
               !.leader_index = (@ + 1) % Len(next.player_ids),
               !.proposed_team = <<>>,
               !.team_votes = EmptyMap]

\* The rejected branch of the tally.
RejectTeam(next) ==
  [next EXCEPT !.reject_count = @ + 1,
               !.phase = PhaseTeamSelection,
               !.leader_index = (@ + 1) % Len(next.player_ids),
               !.proposed_team = <<>>,
               !.team_votes = EmptyMap]

TeamVoteTally(next) ==
  IF TeamApproved(next)
  THEN Accepted([next EXCEPT !.phase = PhaseMissionVote,
                              !.team_votes = EmptyMap],
                "team_approved")
  ELSE Accepted(RejectTeam(next), "team_rejected")

\* Mutant: the game ends only when a threshold is exceeded.
MissionResolveLate(next) ==
  LET result == IF CountValue(next.mission_votes, "fail") > 0
                THEN "fail" ELSE "success"
      moved == [next EXCEPT !.mission_results = Append(@, result),
                            !.mission_votes = EmptyMap,
                            !.proposed_team = <<>>,
                            !.phase = PhaseTeamSelection,
                            !.leader_index = (@ + 1) % Len(next.player_ids),
                            !.reject_count = 0,
                            !.round_index = @ + 1]
      failTotal == Cardinality({i \in DOMAIN moved.mission_results :
                                  moved.mission_results[i] = "fail"})
      successTotal == Len(moved.mission_results) - failTotal
  IN  IF failTotal > FailThreshold
      THEN Accepted([moved EXCEPT !.status = "finished",
                                  !.phase = PhaseFinished,
                                  !.winner = "evil"], "game_ended")
      ELSE IF successTotal > SuccessThreshold
      THEN Accepted([moved EXCEPT !.status = "finished",
                                  !.phase = PhaseFinished,
                                  !.winner = "good"], "game_ended")
      ELSE Accepted(moved, "mission_resolved")

\* applyVote, mission_vote phase, once every team member has voted.
MissionResolve(next) ==
  LET result == IF CountValue(next.mission_votes, "fail") > 0
                THEN "fail" ELSE "success"
      moved == [next EXCEPT !.mission_results = Append(@, result),
                            !.mission_votes = EmptyMap,
                            !.proposed_team = <<>>,
                            !.phase = PhaseTeamSelection,
                            !.leader_index = (@ + 1) % Len(next.player_ids),
                            !.reject_count = 0,
                            !.round_index = @ + 1]
      failTotal == Cardinality({i \in DOMAIN moved.mission_results :
                                  moved.mission_results[i] = "fail"})
      successTotal == Len(moved.mission_results) - failTotal
  IN  IF failTotal >= FailThreshold
      THEN Accepted([moved EXCEPT !.status = "finished",
                                  !.phase = PhaseFinished,
                                  !.winner = "evil"], "game_ended")
      ELSE IF successTotal >= SuccessThreshold
      THEN Accepted([moved EXCEPT !.status = "finished",
                                  !.phase = PhaseFinished,
                                  !.winner = "good"], "game_ended")
      ELSE Accepted(moved, "mission_resolved")

applyVote(state, roomPlayerID, payload) ==
  IF ~isPlayerInGame(state, roomPlayerID)
  THEN Rejected("player not in game")
  ELSE IF state.phase = PhaseTeamVote
  THEN IF payload.approved = "none"
       THEN Rejected("payload must include approved: true/false")
       ELSE IF roomPlayerID \in DOMAIN state.team_votes
       THEN Rejected("already voted")
       ELSE LET v == IF payload.approved = "true" THEN "approve" ELSE "reject"
                next == [state EXCEPT !.team_votes = MapPut(@, roomPlayerID, v)]
            IN  IF Cardinality(DOMAIN next.team_votes) >= Len(next.player_ids)
                THEN TeamVoteTally(next)
                ELSE Accepted(next, "vote_recorded")
  ELSE IF state.phase = PhaseMissionVote
  THEN IF payload.success = "none"
       THEN Rejected("payload must include success: true/false for mission vote")
       ELSE IF ~isOnProposedTeam(state, roomPlayerID)
       THEN Rejected("only team members can submit mission vote")
       ELSE IF roomPlayerID \in DOMAIN state.mission_votes
       THEN Rejected("already voted")
       ELSE LET v == IF payload.success = "true" THEN "success" ELSE "fail"
                next == [state EXCEPT !.mission_votes = MapPut(@, roomPlayerID, v)]
            IN  IF Cardinality(DOMAIN next.mission_votes) >= Len(state.proposed_team)
                THEN MissionResolve(next)
                ELSE Accepted(next, "vote_recorded")
  ELSE Rejected("vote not allowed in phase")

applyAction(state, roomPlayerID, payload) ==
  IF payload.action = "none"
  THEN Rejected("payload must include action or type")
  ELSE IF payload.action \notin getAllowedActions(state.phase)
  THEN Rejected("action not allowed in phase")
  ELSE IF payload.action = ActionStartGame
  THEN Rejected("game already started")
  ELSE IF payload.action = ActionProposeTeam
  THEN IF LeaderPlayerID(state) # roomPlayerID
       THEN Rejected("only the leader can propose a team")
       ELSE IF ~payload.has_team \/ Len(payload.team) = 0
       THEN Rejected("payload must include team_ids or team")
       ELSE LET teamSizes == IF Len(ConfigTeamSizes) = 0
                             THEN DefaultTeamSizesForPlayerCount(Len(state.player_ids))
                             ELSE ConfigTeamSizes
                roundIdx == IF state.round_index <= 0 \/ state.round_index > Len(teamSizes)
                            THEN 1 ELSE state.round_index
            IN  IF Len(payload.team) # teamSizes[roundIdx]
                THEN Rejected("team must have exactly N members for this round")
                ELSE IF \E i \in DOMAIN payload.team :
                          ~isPlayerInGame(state, payload.team[i])
                THEN Rejected("team includes non-player")
                ELSE Accepted([state EXCEPT !.proposed_team = payload.team,
                                            !.phase = PhaseTeamVote,
                                            !.team_votes = EmptyMap],
                              "team_proposed")
  ELSE Rejected("action not implemented")

\* The state the first accepted start_game writes; evil is the set of the
\* first evilCount ids of the random permutation.
BootstrapState(playerIDs, evil) ==
  [ZeroState EXCEPT !.game_id = GameID, !.phase = PhaseTeamSelection,
                    !.status = "in_progress", !.round_index = 1,
                    !.leader_index = 0, !.player_ids = playerIDs,
                    !.roles = [p \in Range(playerIDs) |->
                                 IF p \in evil THEN "evil" ELSE "good"]]

\* Mutant: two players are evil whatever the player count.
EvilCountTwo(n) == 2

EvilCount(n) == IF n >= 7 THEN 3 ELSE 2

\* needsBootstrap: no snapshot, or the lobby snapshot without players.
NeedsBootstrap(hasSnapshot, state) ==
  ~hasSnapshot \/ (state.phase = PhaseLobby /\ Len(state.player_ids) = 0)

\* Mutant: the bounds of the player count are exclusive.
BootstrapCheckExclusive(moveType, payload, playerIDs) ==
  IF moveType # "action"
  THEN "game not started; use action start_game"
  ELSE IF payload.action # ActionStartGame
  THEN "only start_game allowed in lobby"
  ELSE IF Len(playerIDs) <= MinPlayers \/ Len(playerIDs) >= MaxPlayers
  THEN "player count not in range"
  ELSE ""

BootstrapCheck(moveType, payload, playerIDs) ==
  IF moveType # "action"
  THEN "game not started; use action start_game"
  ELSE IF payload.action # ActionStartGame
  THEN "only start_game allowed in lobby"
  ELSE IF Len(playerIDs) < MinPlayers \/ Len(playerIDs) > MaxPlayers
  THEN "player count not in range"
  ELSE ""

\* ApplyMove once the game has been started, up to the persist steps.
Rules(state, roomPlayerID, moveType, payload) ==
  IF state.status = "finished"
  THEN Rejected("game already finished")
  ELSE IF moveType = "vote"
  THEN applyVote(state, roomPlayerID, payload)
  ELSE IF moveType = "action"
  THEN applyAction(state, roomPlayerID, payload)
  ELSE Rejected("unknown move type")


(***************************************************************************)
(* Bounds of the model.                                                    *)
(***************************************************************************)
\* Client messages handled in one behaviour of Spec.
MaxMoves == 2
\* Client messages handled in one behaviour of SpecRace.
MaxRaceMoves == 3
\* Client messages handled in one behaviour of SpecRooms.
MaxRoomMoves == 2
\* Client messages handled in one behaviour of SpecHub.
MaxHubMoves == 2
\* Client messages handled in one behaviour of SpecEvict.
MaxEvictMoves == 3
\* Store calls that fail in one behaviour.
MaxFaults == 1
\* Capacity of a session's send queue (256 in the program).
SendCap == 2
\* Capacity of the Hub's broadcast queue (256 in the program).
BroadcastCap == 6

Clients == {"c1", "c2"}

RoomID == "r1"

\* The outcomes of the random permutation bootstrapAndStart draws: the sets
\* of players that become evil.
EvilChoices ==
  {{"p1", "p2"}, {"p4", "p5"}, {"p1", "p2", "p3"}, {"p5", "p6", "p7"}}

\* The room player each session authenticates as: the two players who have not
\* voted yet when a script ends in a vote.
Seat == [c \in Clients |-> IF c = "c1" THEN "p1" ELSE "p5"]
\* Two players with a session each, or one player with two sessions.
Seatings == {Seat, [c \in Clients |-> "p5"]}

(***************************************************************************)
(* State.                                                                  *)
(***************************************************************************)
VARIABLES
  snapshots,    \* game_state_snapshots rows of the game, in insertion order
  events,       \* game_events rows of the game, in insertion order
  game,         \* the games row (status, ended_at) and its game_players
  pc,           \* where each session's read loop is
  loc,          \* the locals of the handler each read loop is running
  client,       \* the Client of each session: RoomPlayerID and RoomID
  rooms,        \* Hub.rooms: room id -> set of sessions
  broadcast,    \* Hub.broadcast channel
  send,         \* Client.send channel of each session
  closed,       \* who closed each Client.send: "evict", "unregister", in order
  delivered,    \* what each writePump has written to its connection
  crashed,      \* the process has panicked
  moves,        \* client messages the sessions may still send
  faults,       \* store calls that may still fail
  entries,      \* InMemory.entries: limiter key -> times of the requests kept
  granted,      \* every time a request of a key was allowed (not in the code)
  now,          \* the clock
  shutdown      \* the process has received SIGINT/SIGTERM

vars == <<snapshots, events, game, pc, loc, client, rooms, broadcast, send,
          closed, delivered, crashed, moves, faults, entries, granted, now,
          shutdown>>

\* The limiter, the clock and the shutdown signal: what no room handler but
\* chat touches.
auxVars == <<entries, granted, now, shutdown>>

storeVars == <<snapshots, events, game>>

hubVars == <<rooms, broadcast, send, closed, delivered>>

\* A snapshot row.  base, by and moveType are not columns: they record the
\* version of the row whose state the writer had loaded (0 for CreateGame),
\* the actor of the move and its type.
SnapshotRow(version, stateJSON, base, by, moveType) ==
  [version |-> version, state_json |-> stateJSON, base |-> base, by |-> by,
   moveType |-> moveType]

\* GetLatestGameStateSnapshotByGameId: ORDER BY version DESC LIMIT 1.
LatestRow(rows) ==
  CHOOSE r \in Range(rows) : \A o \in Range(rows) : o.version <= r.version

\* Engine.GetState on the rows.
GetState(rows) == StateFromMap(LatestRow(rows).state_json)

\* Mutant: the unique index on (game_id, version) is missing.
VersionTakenNoIndex(rows, v) == FALSE

\* CreateGameStateSnapshot fails on the unique index when the version exists.
VersionTaken(rows, v) == \E r \in Range(rows) : r.version = v

\* The snapshot bootstrapAndStart writes carries team_sizes besides ToMap.
BootstrapJSON(state) ==
  [k \in DOMAIN ToMap(state) \cup {"team_sizes"} |->
     IF k = "team_sizes" THEN ConfigTeamSizes ELSE ToMap(state)[k]]

(***************************************************************************)
(* Server envelopes.  mv is not sent: it tags the envelopes of an accepted  *)
(* move with the snapshot version the move wrote (0 for a reply).          *)
(***************************************************************************)
EventEnvelope(name, mv) ==
  [type |-> "event", event |-> name, message |-> "", state |-> EmptyMap,
   version |-> 0, mv |-> mv]

StateEnvelope(state, mv) ==
  [type |-> "state", event |-> "state", message |-> "", state |-> ToMap(state),
   version |-> state.version, mv |-> mv]

ErrorEnvelope(message, mv) ==
  [type |-> "error", event |-> "", message |-> message, state |-> EmptyMap,
   version |-> 0, mv |-> mv]

NoLocals ==
  [actor |-> "", moveType |-> "", payload |-> NoPayload, boot |-> FALSE,
   base |-> 0, next |-> ZeroState, event |-> "", nextVersion |-> 0,
   reply |-> ErrorEnvelope("", 0)]

(***************************************************************************)
(* The read loop of a session and the handlers it runs.                    *)
(***************************************************************************)
\* HandleRoomWebSocket after a verified token: register, start the pumps.
Connect(c, p) ==
  /\ ~crashed
  /\ UNCHANGED auxVars
  /\ pc[c] = "new"
  /\ client' = [client EXCEPT ![c] = [RoomPlayerID |-> p, RoomID |-> RoomID]]
  /\ rooms' = [r \in DOMAIN rooms \cup {RoomID} |->
                 IF r \in DOMAIN rooms THEN rooms[r] \cup {c} ELSE {c}]
  /\ pc' = [pc EXCEPT ![c] = "idle"]
  /\ UNCHANGED <<storeVars, loc, broadcast, send, closed, delivered, crashed,
                 moves, faults>>

\* Mutant: the handler does not return after the error and goes on to
\* broadcastResult.
FailWithNoReturn(c, l, message) ==
  /\ loc' = [loc EXCEPT ![c] = [l EXCEPT !.reply = ErrorEnvelope(message, 0)]]
  /\ pc' = [pc EXCEPT ![c] = "bcast_event"]

\* The handler ends with an error envelope for the sender.
FailWith(c, l, message) ==
  /\ loc' = [loc EXCEPT ![c] = [l EXCEPT !.reply = ErrorEnvelope(message, 0)]]
  /\ pc' = [pc EXCEPT ![c] = "reply"]

\* handleVote / handleAction up to the end of the rules: the game lookup,
\* GetState and applyVote / applyAction on the loaded state.
HandleMove(c, moveType, payload) ==
  /\ ~crashed
  /\ UNCHANGED auxVars
  /\ pc[c] = "idle"
  /\ moves > 0
  /\ moves' = moves - 1
  /\ LET row == LatestRow(snapshots)
         state == GetState(snapshots)
         l == [NoLocals EXCEPT !.actor = client[c].RoomPlayerID, !.moveType = moveType,
                               !.payload = payload, !.base = row.version]
     IN  \/ /\ client[c].RoomID # RoomID
            /\ UNCHANGED faults
            /\ FailWith(c, l, "no game found for room")
         \/ /\ client[c].RoomID = RoomID
            /\ faults > 0
            /\ faults' = faults - 1
            /\ FailWith(c, l, "get state")
         \/ /\ client[c].RoomID = RoomID
            /\ UNCHANGED faults
            /\ IF NeedsBootstrap(TRUE, state)
               THEN LET chk == BootstrapCheck(moveType, payload, game.players)
                    IN  IF chk # ""
                        THEN FailWith(c, l, chk)
                        ELSE \E evil \in EvilChoices :
                               /\ Cardinality(evil) = EvilCount(Len(game.players))
                               /\ loc' = [loc EXCEPT ![c] =
                                    [l EXCEPT !.boot = TRUE,
                                              !.next = BootstrapState(game.players, evil),
                                              !.event = "game_started"]]
                               /\ pc' = [pc EXCEPT ![c] = "snap_read"]
               ELSE LET res == Rules(state, client[c].RoomPlayerID, moveType, payload)
                    IN  IF res.err # ""
                        THEN FailWith(c, l, res.err)
                        ELSE /\ loc' = [loc EXCEPT ![c] =
                                  [l EXCEPT !.next = res.next, !.event = res.event]]
                             /\ pc' = [pc EXCEPT ![c] = "event"]
  /\ UNCHANGED <<storeVars, client, hubVars, crashed>>

\* ApplyMove: CreateGameEvent.
InsertEvent(c) ==
  /\ ~crashed
  /\ UNCHANGED auxVars
  /\ pc[c] = "event"
  /\ \/ /\ events' = Append(events, [room_player_id |-> loc[c].actor,
                                     type |-> loc[c].moveType,
                                     payload |-> loc[c].payload])
        /\ pc' = [pc EXCEPT ![c] = "snap_read"]
        /\ UNCHANGED <<loc, faults>>
     \/ /\ faults > 0
        /\ faults' = faults - 1
        /\ FailWith(c, loc[c], "persist event")
        /\ UNCHANGED events
  /\ UNCHANGED <<snapshots, game, client, hubVars, crashed, moves>>

\* CreateOrUpdateSnapshot, first statement: read the latest version.
SnapshotReadVersion(c) ==
  /\ ~crashed
  /\ UNCHANGED auxVars
  /\ pc[c] = "snap_read"
  /\ \/ /\ loc' = [loc EXCEPT ![c].nextVersion = LatestRow(snapshots).version + 1]
        /\ pc' = [pc EXCEPT ![c] = "snap_insert"]
        /\ UNCHANGED faults
     \/ /\ faults > 0
        /\ faults' = faults - 1
        /\ FailWith(c, loc[c], "persist snapshot")
  /\ UNCHANGED <<storeVars, client, hubVars, crashed, moves>>

\* The payload of the row a move writes: ToMap is taken before next.Version
\* is assigned.
MoveJSON(l) == IF l.boot THEN BootstrapJSON(l.next) ELSE ToMap(l.next)

AfterInsert(l) ==
  IF l.boot THEN "boot_status"
  ELSE IF l.next.status = "finished" THEN "status"
  ELSE "bcast_event"

\* CreateOrUpdateSnapshot, second statement: insert under the unique index
\* on (game_id, version).
SnapshotInsert(c) ==
  /\ ~crashed
  /\ UNCHANGED auxVars
  /\ pc[c] = "snap_insert"
  /\ IF VersionTaken(snapshots, loc[c].nextVersion)
     THEN /\ FailWith(c, loc[c], "persist snapshot")
          /\ UNCHANGED <<snapshots, faults>>
     ELSE \/ /\ snapshots' = Append(snapshots,
                   SnapshotRow(loc[c].nextVersion, MoveJSON(loc[c]), loc[c].base,
                               loc[c].actor, loc[c].moveType))
             /\ loc' = [loc EXCEPT ![c].next.version = loc[c].nextVersion]
             /\ pc' = [pc EXCEPT ![c] = AfterInsert(loc[c])]
             /\ UNCHANGED faults
          \/ /\ faults > 0
             /\ faults' = faults - 1
             /\ FailWith(c, loc[c], "persist snapshot")
             /\ UNCHANGED snapshots
  /\ UNCHANGED <<events, game, client, hubVars, crashed, moves>>

\* ApplyMove on a terminal move: UpdateGameStatus, its error discarded.
UpdateStatusFinished(c) ==
  /\ ~crashed
  /\ UNCHANGED auxVars
  /\ pc[c] = "status"
  /\ \/ /\ game' = [game EXCEPT !.status = "finished", !.ended_at = TRUE]
        /\ UNCHANGED faults
     \/ /\ faults > 0
        /\ faults' = faults - 1
        /\ UNCHANGED game
  /\ pc' = [pc EXCEPT ![c] = "bcast_event"]
  /\ UNCHANGED <<snapshots, events, loc, client, hubVars, crashed, moves>>

\* bootstrapAndStart: UpdateGameStatus(in_progress, nil), its error returned.
UpdateStatusStarted(c) ==
  /\ ~crashed
  /\ UNCHANGED auxVars
  /\ pc[c] = "boot_status"
  /\ \/ /\ game' = [game EXCEPT !.status = "in_progress", !.ended_at = FALSE]
        /\ pc' = [pc EXCEPT ![c] = "bcast_event"]
        /\ UNCHANGED <<loc, faults>>
     \/ /\ faults > 0
        /\ faults' = faults - 1
        /\ FailWith(c, loc[c], "update game status")
        /\ UNCHANGED game
  /\ UNCHANGED <<snapshots, events, client, hubVars, crashed, moves>>

BroadcastMessage(room, env, exclude) ==
  [room |-> room, envelope |-> env, exclude |-> exclude]

\* Mutant: the state envelope is handed to the Hub before the event.
ResultEnvelopesStateFirst(l) ==
  <<StateEnvelope(l.next, l.next.version), EventEnvelope(l.event, l.next.version)>>

\* broadcastResult: the envelopes of an accepted move in the order they are
\* handed to the Hub, result.Events and then result.State.
ResultEnvelopes(l) ==
  <<EventEnvelope(l.event, l.next.version), StateEnvelope(l.next, l.next.version)>>

\* broadcastResult, first send: the event of the move.
BroadcastEvents(c) ==
  /\ ~crashed
  /\ UNCHANGED auxVars
  /\ pc[c] = "bcast_event"
  /\ Len(broadcast) < BroadcastCap
  /\ broadcast' = Append(broadcast,
        BroadcastMessage(client[c].RoomID, ResultEnvelopes(loc[c])[1], ""))
  /\ pc' = [pc EXCEPT ![c] = "bcast_state"]
  /\ UNCHANGED <<storeVars, loc, client, rooms, send, closed, delivered,
                 crashed, moves, faults>>

\* broadcastResult, second send: the state envelope.
BroadcastState(c) ==
  /\ ~crashed
  /\ UNCHANGED auxVars
  /\ pc[c] = "bcast_state"
  /\ Len(broadcast) < BroadcastCap
  /\ broadcast' = Append(broadcast,
        BroadcastMessage(client[c].RoomID, ResultEnvelopes(loc[c])[2], ""))
  /\ pc' = [pc EXCEPT ![c] = "idle"]
  /\ loc' = [loc EXCEPT ![c] = NoLocals]
  /\ UNCHANGED <<storeVars, client, rooms, send, closed, delivered,
                 crashed, moves, faults>>

\* handleSyncState up to the reply: the game lookup and GetState.
HandleSyncState(c) ==
  /\ ~crashed
  /\ UNCHANGED auxVars
  /\ pc[c] = "idle"
  /\ moves > 0
  /\ moves' = moves - 1
  /\ LET l == [NoLocals EXCEPT !.actor = client[c].RoomPlayerID, !.moveType = "sync_state",
                               !.base = LatestRow(snapshots).version]
     IN  \/ /\ faults > 0
            /\ faults' = faults - 1
            /\ FailWith(c, l, "failed to load state")
         \/ /\ UNCHANGED faults
            /\ loc' = [loc EXCEPT ![c] =
                 [l EXCEPT !.reply = StateEnvelope(GetState(snapshots), 0)]]
            /\ pc' = [pc EXCEPT ![c] = "reply"]
  /\ UNCHANGED <<storeVars, client, hubVars, crashed>>

\* sendEnvelopeToClient: a non-blocking send on the sender's own queue; a
\* send on a closed channel panics.
Reply(c) ==
  /\ ~crashed
  /\ UNCHANGED auxVars
  /\ pc[c] = "reply"
  /\ IF Len(closed[c]) > 0
     THEN /\ crashed' = TRUE
          /\ UNCHANGED send
     ELSE /\ send' = [send EXCEPT ![c] =
                IF Len(@) < SendCap THEN Append(@, loc[c].reply) ELSE @]
          /\ UNCHANGED crashed
  /\ pc' = [pc EXCEPT ![c] = "idle"]
  /\ loc' = [loc EXCEPT ![c] = NoLocals]
  /\ UNCHANGED <<storeVars, client, rooms, broadcast, closed, delivered,
                 moves, faults>>

(***************************************************************************)
(* The Hub coordinator (Hub.Run) and the write loop of a session.          *)
(***************************************************************************)
\* Mutant: the excluded session is not skipped.
TargetsWithSender(msg) ==
  IF msg.room \in DOMAIN rooms THEN rooms[msg.room] ELSE {}

\* The sessions a fan-out message is offered to.
Targets(msg) ==
  IF msg.room \in DOMAIN rooms THEN rooms[msg.room] \ {msg.exclude} ELSE {}

\* Mutant: a full queue is not noticed.
EvictedNone(msg) == {}

\* The sessions whose queue is full at fan-out: the slow consumers.
Evicted(msg) == {c \in Targets(msg) : Len(send[c]) >= SendCap}

\* Mutant: the message is put at the head of the queue.
EnqueueFront(q, out) == <<out>> \o q

\* case client.send <- out
Enqueue(q, out) == Append(q, out)

\* case message := <-h.broadcast
HubFanout ==
  /\ ~crashed
  /\ UNCHANGED auxVars
  /\ Len(broadcast) > 0
  /\ LET msg == Head(broadcast)
     IN  /\ broadcast' = Tail(broadcast)
         /\ send' = [c \in DOMAIN send |->
              IF c \in Targets(msg) \ Evicted(msg)
              THEN Enqueue(send[c], msg.envelope) ELSE send[c]]
         /\ closed' = [c \in DOMAIN closed |->
              IF c \in Evicted(msg) THEN Append(closed[c], "evict")
              ELSE closed[c]]
         /\ rooms' = [r \in DOMAIN rooms |->
              IF r = msg.room THEN rooms[r] \ Evicted(msg) ELSE rooms[r]]
         /\ crashed' = \E c \in Targets(msg) : Len(closed[c]) > 0
  /\ UNCHANGED <<storeVars, pc, loc, client, delivered, moves, faults>>

\* readPump: ReadMessage fails (connection closed, read deadline expired);
\* the deferred function sends the session on Hub.unregister.
ReadError(c) ==
  /\ ~crashed
  /\ UNCHANGED auxVars
  /\ pc[c] = "idle"
  /\ pc' = [pc EXCEPT ![c] = "unreg"]
  /\ UNCHANGED <<storeVars, loc, client, hubVars, crashed, moves, faults>>

\* Mutant: the session is closed whether or not the room still holds it.
InRoomAlways(c) == TRUE

\* The registry holds the session: the two lookups of the unregister case.
InRoom(c) == client[c].RoomID \in DOMAIN rooms /\ c \in rooms[client[c].RoomID]

\* case client := <-h.unregister
HubUnregister(c) ==
  /\ ~crashed
  /\ UNCHANGED auxVars
  /\ pc[c] = "unreg"
  /\ pc' = [pc EXCEPT ![c] = "gone"]
  /\ IF InRoom(c)
     THEN /\ closed' = [closed EXCEPT ![c] = Append(@, "unregister")]
          /\ crashed' = (Len(closed[c]) > 0)
          /\ rooms' = [r \in {x \in DOMAIN rooms :
                                x # client[c].RoomID \/ rooms[x] # {c}} |->
                         rooms[r] \ {c}]
     ELSE UNCHANGED <<closed, crashed, rooms>>
  /\ UNCHANGED <<storeVars, loc, client, broadcast, send, delivered, moves,
                 faults>>

\* writePump: take the next message off the send queue and write it.
WritePump(c) ==
  /\ ~crashed
  /\ UNCHANGED auxVars
  /\ Len(send[c]) > 0
  /\ delivered' = [delivered EXCEPT ![c] = Append(@, Head(send[c]))]
  /\ send' = [send EXCEPT ![c] = Tail(@)]
  /\ UNCHANGED <<storeVars, pc, loc, client, rooms, broadcast, closed, crashed,
                 moves, faults>>

(***************************************************************************)
(* The token service, the upgrade handlers, the limiter and chat.          *)
(***************************************************************************)
\* WEBSOCKET_TOKEN_SECRET of the server, and a key that is not the server's.
ServerSecret == "s1"
Secrets == {"s1", "s2"}

\* Mutant: the tag does not depend on the key.
SignKeyless(payload, secret) == [payload |-> payload, key |-> ""]

\* HMAC-SHA256 of the encoded payload under the key, taken as collision-free:
\* two tags are equal exactly when payload and key are.
Sign(payload, secret) == [payload |-> payload, key |-> secret]

\* GenerateToken: the encoded claims and their tag, joined by a dot.  A token
\* is the sequence of its parts.
GenerateToken(roomID, roomPlayerID, secret, exp) ==
  LET claims == [room_id |-> roomID, room_player_id |-> roomPlayerID, exp |-> exp]
  IN  <<claims, Sign(claims, secret)>>

NoClaims == [room_id |-> "", room_player_id |-> "", exp |-> 0]

\* VerifyToken at time t: the error ("" for none) and the claims.
VerifyToken(token, secret, t) ==
  IF secret = ""
  THEN [err |-> "token secret is required", claims |-> NoClaims]
  ELSE IF Len(token) # 2
  THEN [err |-> "invalid token format", claims |-> NoClaims]
  ELSE IF token[2] # Sign(token[1], secret)
  THEN [err |-> "invalid token signature", claims |-> NoClaims]
  ELSE IF t > token[1].exp
  THEN [err |-> "token expired", claims |-> NoClaims]
  ELSE IF token[1].room_id = "" \/ token[1].room_player_id = ""
  THEN [err |-> "invalid token claims", claims |-> NoClaims]
  ELSE [err |-> "", claims |-> token[1]]

\* rooms: the room id of each room code; room_players: the players of each
\* room.  The game of the model is the game of room RoomID.
OtherRoomID == "r2"
RoomByCode == [code \in {"A", "B"} |-> IF code = "A" THEN RoomID ELSE OtherRoomID]
RoomPlayers ==
  [r \in {RoomID, OtherRoomID} |->
     IF r = RoomID THEN Range(GamePlayerIDs) ELSE {"q1"}]

\* A Client before its upgrade request.  route, code, token and status are
\* not fields of Client: they record the request and the HTTP answer.
NoClient ==
  [RoomPlayerID |-> "", RoomID |-> "", GameID |-> "", RateLimitKey |-> "",
   route |-> "", code |-> "", token |-> <<>>, status |-> 0]

\* The answer of an upgrade request, before the upgrade.
Refuse(c, route, code, token, status) ==
  /\ client' = [client EXCEPT ![c] =
       [NoClient EXCEPT !.route = route, !.code = code, !.token = token,
                        !.status = status]]
  /\ pc' = [pc EXCEPT ![c] = "refused"]

\* The upgrade (101) and the Client handed to Hub.register.
Upgrade(c, route, code, token, roomID, gameID, roomPlayerID, key) ==
  /\ client' = [client EXCEPT ![c] =
       [RoomPlayerID |-> roomPlayerID, RoomID |-> roomID, GameID |-> gameID,
        RateLimitKey |-> key, route |-> route, code |-> code, token |-> token,
        status |-> 101]]
  /\ pc' = [pc EXCEPT ![c] = "register"]

\* HandleRoomWebSocket, GET /ws/rooms/{code}, up to client.hub.register <-
\* client.  The server takes requests until it is shut down.
HandleRoomWebSocket(c, code, token, key) ==
  /\ ~crashed
  /\ ~shutdown
  /\ pc[c] = "new"
  /\ LET v == VerifyToken(token, ServerSecret, now)
     IN  IF Len(token) = 0 \/ ServerSecret = ""
         THEN Refuse(c, "room", code, token, 401)
         ELSE IF v.err # ""
         THEN Refuse(c, "room", code, token, 401)
         ELSE IF code \notin DOMAIN RoomByCode
         THEN Refuse(c, "room", code, token, 404)
         ELSE IF RoomByCode[code] # v.claims.room_id
         THEN Refuse(c, "room", code, token, 401)
         ELSE IF v.claims.room_player_id \notin RoomPlayers[RoomByCode[code]]
         THEN Refuse(c, "room", code, token, 401)
         ELSE Upgrade(c, "room", code, token, RoomByCode[code], "",
                      v.claims.room_player_id, key)
  /\ UNCHANGED <<storeVars, loc, hubVars, crashed, moves, faults, auxVars>>

\* HandleWebSocket, GET /api/rooms/{code}/games/{game_id}/ws, up to
\* client.hub.register <- client: no token is asked for, room_player_id is
\* taken from the query.
HandleWebSocket(c, code, roomPlayerID) ==
  /\ ~crashed
  /\ ~shutdown
  /\ pc[c] = "new"
  /\ IF code \notin DOMAIN RoomByCode
     THEN Refuse(c, "game", code, <<>>, 404)
     ELSE Upgrade(c, "game", code, <<>>, RoomByCode[code], GameID, roomPlayerID, "")
  /\ UNCHANGED <<storeVars, loc, hubVars, crashed, moves, faults, auxVars>>

\* case client := <-h.register
HubRegister(c) ==
  /\ ~crashed
  /\ pc[c] = "register"
  /\ rooms' = [r \in DOMAIN rooms \cup {client[c].RoomID} |->
                 IF r \in DOMAIN rooms
                 THEN (IF r = client[c].RoomID THEN rooms[r] \cup {c} ELSE rooms[r])
                 ELSE {c}]
  /\ pc' = [pc EXCEPT ![c] = "idle"]
  /\ UNCHANGED <<storeVars, loc, client, broadcast, send, closed, delivered,
                 crashed, moves, faults, auxVars>>

\* main: the signal arrives and srv.Shutdown is called; the listener is
\* closed, the handlers that are running go on.
Shutdown ==
  /\ ~crashed
  /\ ~shutdown
  /\ shutdown' = TRUE
  /\ UNCHANGED <<storeVars, pc, loc, client, hubVars, crashed, moves, faults,
                 entries, granted, now>>

\* NewInMemory(limit, window): the limit and the window length, in ticks of
\* the clock (20 and 60 s in the program).
RateLimit == 2
RateWindow == 2
\* The last tick of the clock in one behaviour.
MaxTime == 4

\* Mutant: a key is denied only when it has more than limit requests kept.
AllowOneMore(e, key, t) ==
  LET times == SelectSeq(e[key], LAMBDA x : x > t - RateWindow)
  IN  IF Len(times) > RateLimit
      THEN [allowed |-> FALSE, entries |-> e]
      ELSE [allowed |-> TRUE, entries |-> [e EXCEPT ![key] = Append(times, t)]]

\* InMemory.Allow at time t: drop the times not after t - window, deny when
\* limit of them are left, else append t and store the slice.
Allow(e, key, t) ==
  LET times == SelectSeq(e[key], LAMBDA x : x > t - RateWindow)
  IN  IF Len(times) >= RateLimit
      THEN [allowed |-> FALSE, entries |-> e]
      ELSE [allowed |-> TRUE, entries |-> [e EXCEPT ![key] = Append(times, t)]]

\* RateLimitMiddleware in front of create-room, join-room, register and
\* login: 429 when the limiter denies, else the request goes on.
RateLimitMiddleware(key) ==
  /\ ~crashed
  /\ LET r == Allow(entries, key, now)
     IN  /\ entries' = r.entries
         /\ granted' = IF r.allowed THEN [granted EXCEPT ![key] = Append(@, now)]
                                    ELSE granted
  /\ UNCHANGED <<storeVars, pc, loc, client, hubVars, crashed, moves, faults,
                 now, shutdown>>

\* Time passes.
Tick ==
  /\ ~crashed
  /\ now < MaxTime
  /\ now' = now + 1
  /\ UNCHANGED <<storeVars, pc, loc, client, hubVars, crashed, moves, faults,
                 entries, granted, shutdown>>

ChatEnvelope(message) ==
  [type |-> "event", event |-> "chat", message |-> message, state |-> EmptyMap,
   version |-> 0, mv |-> 0]

\* handleChat: the limiter, then the message is sent on Hub.broadcast for the
\* room of the sender, the sender excluded.  An empty message is dropped.
HandleChat(c, message) ==
  /\ ~crashed
  /\ pc[c] = "idle"
  /\ client[c].GameID = ""
  /\ moves > 0
  /\ moves' = moves - 1
  /\ LET r == IF client[c].RateLimitKey # ""
              THEN Allow(entries, client[c].RateLimitKey, now)
              ELSE [allowed |-> TRUE, entries |-> entries]
     IN  /\ entries' = r.entries
         /\ granted' = IF r.allowed /\ client[c].RateLimitKey # ""
                       THEN [granted EXCEPT ![client[c].RateLimitKey] = Append(@, now)]
                       ELSE granted
         /\ IF ~r.allowed
            THEN /\ FailWith(c, [NoLocals EXCEPT !.actor = client[c].RoomPlayerID,
                                                 !.moveType = "chat"],
                             "rate limit exceeded; try again later")
                 /\ UNCHANGED broadcast
            ELSE IF message = ""
            THEN UNCHANGED <<pc, loc, broadcast>>
            ELSE /\ Len(broadcast) < BroadcastCap
                 /\ broadcast' = Append(broadcast,
                       BroadcastMessage(client[c].RoomID, ChatEnvelope(message), c))
                 /\ UNCHANGED <<pc, loc>>
  /\ UNCHANGED <<storeVars, client, rooms, send, closed, delivered, crashed,
                 faults, now, shutdown>>

(***************************************************************************)
(* Initial states: the store after CreateGame, or after a run of accepted  *)
(* moves applied one after the other.                                      *)
(***************************************************************************)
Move(actor, moveType, payload) ==
  [actor |-> actor, moveType |-> moveType, payload |-> payload]

\* The rows after one more move, applied alone (every Store call succeeds).
ApplyAlone(rows, m, players) ==
  LET row == LatestRow(rows)
      state == GetState(rows)
      next == IF NeedsBootstrap(TRUE, state)
              THEN BootstrapState(players, {"p4", "p5"})
              ELSE Rules(state, m.actor, m.moveType, m.payload).next
      json == IF NeedsBootstrap(TRUE, state) THEN BootstrapJSON(next) ELSE ToMap(next)
  IN  Append(rows, SnapshotRow(row.version + 1, json, row.version, m.actor,
                               m.moveType))

RECURSIVE Replay(_, _, _)
Replay(rows, script, players) ==
  IF Len(script) = 0 THEN rows
  ELSE Replay(ApplyAlone(rows, Head(script), players), Tail(script), players)

Approve(p) == Move(p, "vote", VotePayload("true", "none"))
Reject(p) == Move(p, "vote", VotePayload("false", "none"))
Succeed(p) == Move(p, "vote", VotePayload("none", "true"))
Sabotage(p) == Move(p, "vote", VotePayload("none", "false"))
Propose(p, team) == Move(p, "action", ProposePayload(team))

ScriptStart == <<Move("p1", "action", ActionPayload(ActionStartGame))>>

\* Round 1 up to a team vote with three of five votes in.
ScriptTeamVote ==
  ScriptStart \o <<Propose("p1", <<"p1", "p2">>), Approve("p3"), Approve("p4"),
                   Reject("p2")>>

\* A team vote in which everyone approves, and one in which everyone rejects.
AllApprove == <<Approve("p1"), Approve("p2"), Approve("p3"), Approve("p4"),
                Approve("p5")>>

AllReject == <<Reject("p1"), Reject("p2"), Reject("p3"), Reject("p4"),
               Reject("p5")>>

\* One rejected team and two successful missions, then round 3 up to a
\* mission vote with one of two votes in: the next mission vote ends the game
\* or opens round 4 with p5 as leader.
ScriptLastVote ==
  ScriptStart
    \o <<Propose("p1", <<"p1", "p2">>)>> \o AllReject
    \o <<Propose("p2", <<"p1", "p2">>)>> \o AllApprove
    \o <<Succeed("p1"), Succeed("p2")>>
    \o <<Propose("p3", <<"p1", "p2", "p5">>)>> \o AllApprove
    \o <<Succeed("p1"), Succeed("p2"), Succeed("p5")>>
    \o <<Propose("p4", <<"p1", "p5">>)>> \o AllApprove
    \o <<Succeed("p1")>>

\* A game of six at the team selection of round 3: two missions of sizes 2
\* and 3 have succeeded, p3 leads.
ScriptSixRound3 ==
  ScriptStart
    \o <<Propose("p1", <<"p1", "p2">>)>> \o AllApprove \o <<Approve("p6")>>
    \o <<Succeed("p1"), Succeed("p2")>>
    \o <<Propose("p2", <<"p1", "p2", "p5">>)>> \o AllApprove \o <<Approve("p6")>>
    \o <<Succeed("p1"), Succeed("p2"), Succeed("p5")>>

\* Round 5 with two successes and two failures; the team is <p1, p2, p5> and
\* the vote of p5, the leader, is the one missing.
ScriptDecider ==
  ScriptStart
    \o <<Propose("p1", <<"p1", "p2">>)>> \o AllApprove
    \o <<Succeed("p1"), Succeed("p2")>>
    \o <<Propose("p2", <<"p1", "p2", "p5">>)>> \o AllApprove
    \o <<Sabotage("p1"), Succeed("p2"), Succeed("p5")>>
    \o <<Propose("p3", <<"p1", "p2">>)>> \o AllApprove
    \o <<Succeed("p1"), Succeed("p2")>>
    \o <<Propose("p4", <<"p1", "p2", "p5">>)>> \o AllApprove
    \o <<Sabotage("p1"), Succeed("p2"), Succeed("p5")>>
    \o <<Propose("p5", <<"p1", "p2", "p5">>)>> \o AllApprove
    \o <<Succeed("p1"), Succeed("p2")>>

\* The first team was rejected; the second team vote has three of five votes.
ScriptSecondVote ==
  ScriptStart \o <<Propose("p1", <<"p1", "p2">>)>> \o AllReject
    \o <<Propose("p2", <<"p1", "p2">>), Approve("p3"), Approve("p4"),
         Reject("p2")>>

\* Round 1 with a team that names p1 twice, up to a team vote with four of
\* five votes in, all approving.
ScriptTwice ==
  ScriptStart \o <<Propose("p1", <<"p1", "p1">>), Approve("p1"), Approve("p2"),
                   Approve("p3"), Approve("p4")>>

\* The mission of round 1, team <p1, p2>, with no mission vote in yet.
ScriptMission ==
  ScriptStart \o <<Propose("p1", <<"p1", "p2">>)>> \o AllApprove

CreatedRows == <<SnapshotRow(1, LobbyStateJSON, 0, "", "")>>

Scripts == {<<>>, ScriptTeamVote, ScriptLastVote}

EventsOf(script) ==
  [i \in 1..(Len(script) - 1) |->
     [room_player_id |-> script[i + 1].actor, type |-> script[i + 1].moveType,
      payload |-> script[i + 1].payload]]

\* The store after one of the scripts; the sessions are registered and idle
\* (connected), or not yet connected.
InitWith(players, scripts, budget, faultBudget, seatings, connected) ==
  /\ \E script \in scripts :
       /\ snapshots = Replay(CreatedRows, script, players)
       /\ events = EventsOf(script)
       /\ game = [status |-> IF Len(script) = 0 THEN "waiting" ELSE "in_progress",
                  ended_at |-> FALSE, players |-> players]
  /\ pc = [c \in Clients |-> IF connected THEN "idle" ELSE "new"]
  /\ loc = [c \in Clients |-> NoLocals]
  /\ IF connected
     THEN /\ \E ps \in seatings :
               client = [c \in Clients |-> [RoomPlayerID |-> ps[c], RoomID |-> RoomID]]
          /\ rooms = [r \in {RoomID} |-> Clients]
     ELSE /\ client = [c \in Clients |-> [RoomPlayerID |-> "", RoomID |-> ""]]
          /\ rooms = <<>>
  /\ broadcast = <<>>
  /\ send = [c \in Clients |-> <<>>]
  /\ closed = [c \in Clients |-> <<>>]
  /\ delivered = [c \in Clients |-> <<>>]
  /\ crashed = FALSE
  /\ entries = [k \in RateKeys |-> <<>>]
  /\ granted = [k \in RateKeys |-> <<>>]
  /\ now = 0
  /\ shutdown = FALSE
  /\ moves = budget
  /\ faults = faultBudget

Init == InitWith(GamePlayerIDs, Scripts, MaxMoves, MaxFaults, Seatings, TRUE)

InitRace == InitWith(GamePlayerIDs, Scripts, MaxRaceMoves, MaxFaults, Seatings, TRUE)

\* A team vote in progress, no session connected yet, the store reliable.
InitHub == InitWith(GamePlayerIDs, {ScriptTeamVote}, MaxHubMoves, 0, {Seat}, FALSE)

(***************************************************************************)
(* Client messages and the next-state relation.                            *)
(***************************************************************************)
VotePayloads ==
  {VotePayload("true", "none"), VotePayload("false", "none"),
   VotePayload("none", "true"), VotePayload("none", "false")}

TeamChoices == {<<"p1", "p2">>, <<"p1", Outsider>>, <<"p1", "p2", "p5">>}

ActionPayloads ==
  {ActionPayload(ActionStartGame)} \cup {ProposePayload(t) : t \in TeamChoices}

\* The sessions' read loops and the handlers they run; the Hub coordinator
\* is not scheduled.
Next ==
  \/ \E c \in Clients, pl \in VotePayloads : HandleMove(c, "vote", pl)
  \/ \E c \in Clients, pl \in ActionPayloads : HandleMove(c, "action", pl)
  \/ \E c \in Clients : HandleSyncState(c)
  \/ \E c \in Clients : InsertEvent(c)
  \/ \E c \in Clients : SnapshotReadVersion(c)
  \/ \E c \in Clients : SnapshotInsert(c)
  \/ \E c \in Clients : UpdateStatusFinished(c)
  \/ \E c \in Clients : UpdateStatusStarted(c)
  \/ \E c \in Clients : BroadcastEvents(c)
  \/ \E c \in Clients : BroadcastState(c)
  \/ \E c \in Clients : Reply(c)

Spec == Init /\ [][Next]_vars

SpecRace == InitRace /\ [][Next]_vars

\* The game of six: the leader of round 3 and another player hold a session,
\* and propose teams of two and of four.
SixSeat == [c \in Clients |-> IF c = "c1" THEN "p3" ELSE "p1"]

SixTeamChoices == {<<"p1", "p2">>, <<"p1", "p2", "p3", "p4">>}

InitSix == InitWith(SixPlayerIDs, {ScriptSixRound3}, MaxMoves, MaxFaults, {SixSeat}, TRUE)

NextSix ==
  \/ \E c \in Clients, t \in SixTeamChoices :
       HandleMove(c, "action", ProposePayload(t))
  \/ \E c \in Clients : InsertEvent(c)
  \/ \E c \in Clients : SnapshotReadVersion(c)
  \/ \E c \in Clients : SnapshotInsert(c)
  \/ \E c \in Clients : BroadcastEvents(c)
  \/ \E c \in Clients : BroadcastState(c)
  \/ \E c \in Clients : Reply(c)

SpecSix == InitSix /\ [][NextSix]_vars

\* The last mission votes of a game: the vote that decides it, or the one
\* that leaves it open.
InitEnd ==
  InitWith(GamePlayerIDs, {ScriptLastVote, ScriptDecider}, MaxMoves, MaxFaults,
           Seatings, TRUE)

NextEnd ==
  \/ \E c \in Clients, pl \in VotePayloads : HandleMove(c, "vote", pl)
  \/ \E c \in Clients : InsertEvent(c)
  \/ \E c \in Clients : SnapshotReadVersion(c)
  \/ \E c \in Clients : SnapshotInsert(c)
  \/ \E c \in Clients : UpdateStatusFinished(c)
  \/ \E c \in Clients : BroadcastEvents(c)
  \/ \E c \in Clients : BroadcastState(c)
  \/ \E c \in Clients : Reply(c)

SpecEnd == InitEnd /\ [][NextEnd]_vars

\* The last two votes of a team vote that follows a rejected team.
InitTally ==
  InitWith(GamePlayerIDs, {ScriptSecondVote}, MaxMoves, MaxFaults, Seatings, TRUE)

NextTally ==
  \/ \E c \in Clients, pl \in VotePayloads : HandleMove(c, "vote", pl)
  \/ \E c \in Clients : InsertEvent(c)
  \/ \E c \in Clients : SnapshotReadVersion(c)
  \/ \E c \in Clients : SnapshotInsert(c)
  \/ \E c \in Clients : BroadcastEvents(c)
  \/ \E c \in Clients : BroadcastState(c)
  \/ \E c \in Clients : Reply(c)

SpecTally == InitTally /\ [][NextTally]_vars

\* A mission whose team has the player of one session and not the other's.
InitMission ==
  InitWith(GamePlayerIDs, {ScriptMission}, MaxMoves, MaxFaults, {Seat}, TRUE)

SpecMission == InitMission /\ [][NextTally]_vars

\* The teams the leader of round 1 proposes in the behaviours of SpecTwice.
TwiceTeamChoices == {<<"p1", "p2">>, <<"p1", "p1">>}

\* The team selection of round 1, or the team vote on a team that names one
\* player twice.
InitTwice ==
  InitWith(GamePlayerIDs, {ScriptStart, ScriptTwice}, MaxMoves, MaxFaults, {Seat}, TRUE)

NextTwice ==
  \/ \E c \in Clients, t \in TwiceTeamChoices : HandleMove(c, "action", ProposePayload(t))
  \/ \E c \in Clients, pl \in VotePayloads : HandleMove(c, "vote", pl)
  \/ \E c \in Clients : InsertEvent(c)
  \/ \E c \in Clients : SnapshotReadVersion(c)
  \/ \E c \in Clients : SnapshotInsert(c)
  \/ \E c \in Clients : BroadcastEvents(c)
  \/ \E c \in Clients : BroadcastState(c)
  \/ \E c \in Clients : Reply(c)

SpecTwice == InitTwice /\ [][NextTwice]_vars

\* The numbers of players of the created games start_game is sent to.
StartCounts == {4, 5, 6, 7, 10, 11}

\* A created game (lobby snapshot only) with its game_players.
InitStart ==
  \E n \in StartCounts :
    InitWith(SubSeq(RoomPlayerIDs, 1, n), {<<>>}, MaxMoves, MaxFaults, {Seat}, TRUE)

NextStart ==
  \/ \E c \in Clients : HandleMove(c, "action", ActionPayload(ActionStartGame))
  \/ \E c \in Clients : SnapshotReadVersion(c)
  \/ \E c \in Clients : SnapshotInsert(c)
  \/ \E c \in Clients : UpdateStatusStarted(c)
  \/ \E c \in Clients : BroadcastEvents(c)
  \/ \E c \in Clients : BroadcastState(c)
  \/ \E c \in Clients : Reply(c)

SpecStart == InitStart /\ [][NextStart]_vars

\* The locals of the start_game handler that wrote row 2 of the scripts, after
\* its CreateOrUpdateSnapshot call and before its UpdateGameStatus call.
StalledStart ==
  [NoLocals EXCEPT !.actor = "p1", !.moveType = "action",
                   !.payload = ActionPayload(ActionStartGame), !.boot = TRUE,
                   !.base = 1,
                   !.next = [BootstrapState(GamePlayerIDs, {"p4", "p5"})
                               EXCEPT !.version = 2],
                   !.event = "game_started", !.nextVersion = 2]

\* The start_game handler of p1 has not yet made its UpdateGameStatus call;
\* the game it started has been played on from its snapshot up to the last
\* mission vote, which the session of p5 is about to send.
InitStalled ==
  /\ snapshots = Replay(CreatedRows, ScriptLastVote, GamePlayerIDs)
  /\ events = EventsOf(ScriptLastVote)
  /\ game = [status |-> "waiting", ended_at |-> FALSE, players |-> GamePlayerIDs]
  /\ pc = [c \in Clients |-> IF c = "c1" THEN "boot_status" ELSE "idle"]
  /\ loc = [c \in Clients |-> IF c = "c1" THEN StalledStart ELSE NoLocals]
  /\ client = [c \in Clients |-> [RoomPlayerID |-> Seat[c], RoomID |-> RoomID]]
  /\ rooms = [r \in {RoomID} |-> Clients]
  /\ broadcast = <<>>
  /\ send = [c \in Clients |-> <<>>]
  /\ closed = [c \in Clients |-> <<>>]
  /\ delivered = [c \in Clients |-> <<>>]
  /\ crashed = FALSE
  /\ entries = [k \in RateKeys |-> <<>>]
  /\ granted = [k \in RateKeys |-> <<>>]
  /\ now = 0
  /\ shutdown = FALSE
  /\ moves = MaxMoves
  /\ faults = MaxFaults

NextStalled ==
  \/ \E c \in Clients, pl \in VotePayloads : HandleMove(c, "vote", pl)
  \/ \E c \in Clients : InsertEvent(c)
  \/ \E c \in Clients : SnapshotReadVersion(c)
  \/ \E c \in Clients : SnapshotInsert(c)
  \/ \E c \in Clients : UpdateStatusFinished(c)
  \/ \E c \in Clients : UpdateStatusStarted(c)
  \/ \E c \in Clients : BroadcastEvents(c)
  \/ \E c \in Clients : BroadcastState(c)
  \/ \E c \in Clients : Reply(c)

SpecStalled == InitStalled /\ [][NextStalled]_vars

\* Three sessions: two of players of the room of the game, one of a player
\* of the other room.
Sessions == Clients \cup {"c3"}

\* The expiry of the tokens that have not expired in a behaviour.
TokenExp == MaxTime

\* The request each session of SpecRooms connects with: the code of its room
\* and the token its join returned.
RoomSeat ==
  [c \in Sessions |->
     IF c = "c3"
     THEN [code |-> "B", key |-> "ip2",
           token |-> GenerateToken(OtherRoomID, "q1", ServerSecret, TokenExp)]
     ELSE [code |-> "A", key |-> "ip1",
           token |-> GenerateToken(RoomID, Seat[c], ServerSecret, TokenExp)]]

\* A team vote in progress in the game of room RoomID, nobody connected.
InitRooms ==
  /\ snapshots = Replay(CreatedRows, ScriptTeamVote, GamePlayerIDs)
  /\ events = EventsOf(ScriptTeamVote)
  /\ game = [status |-> "in_progress", ended_at |-> FALSE, players |-> GamePlayerIDs]
  /\ pc = [c \in Sessions |-> "new"]
  /\ loc = [c \in Sessions |-> NoLocals]
  /\ client = [c \in Sessions |-> NoClient]
  /\ rooms = <<>>
  /\ broadcast = <<>>
  /\ send = [c \in Sessions |-> <<>>]
  /\ closed = [c \in Sessions |-> <<>>]
  /\ delivered = [c \in Sessions |-> <<>>]
  /\ crashed = FALSE
  /\ moves = MaxRoomMoves
  /\ faults = 0
  /\ entries = [k \in RateKeys |-> <<>>]
  /\ granted = [k \in RateKeys |-> <<>>]
  /\ now = 0
  /\ shutdown = FALSE

\* The sessions whose connection takes what is written to it in the
\* behaviours of SpecRooms; the third is a slow consumer.
Drained == {"c2", "c3"}

NextRooms ==
  \/ \E c \in Sessions :
       HandleRoomWebSocket(c, RoomSeat[c].code, RoomSeat[c].token, RoomSeat[c].key)
  \/ \E c \in Sessions : HubRegister(c)
  \/ \E c \in Sessions : HandleChat(c, "hi")
  \/ \E c \in Sessions : HandleMove(c, "vote", VotePayload("true", "none"))
  \/ \E c \in Sessions : InsertEvent(c)
  \/ \E c \in Sessions : SnapshotReadVersion(c)
  \/ \E c \in Sessions : SnapshotInsert(c)
  \/ \E c \in Sessions : BroadcastEvents(c)
  \/ \E c \in Sessions : BroadcastState(c)
  \/ \E c \in Sessions : Reply(c)
  \/ \E c \in Drained : WritePump(c)
  \/ HubFanout

SpecRooms == InitRooms /\ [][NextRooms]_vars

\* The tokens an upgrade request may carry: none, one without the dot, tokens
\* of players of room RoomID, a token of the other room, a token naming a
\* player that is not in the room, an expired token, a token with empty
\* claims, and a token signed with a key that is not the server's.
Tokens ==
  { <<>>,
    <<[room_id |-> RoomID, room_player_id |-> "p1", exp |-> TokenExp]>>,
    GenerateToken(RoomID, "p1", ServerSecret, TokenExp),
    GenerateToken(RoomID, "p2", ServerSecret, TokenExp),
    GenerateToken(OtherRoomID, "q1", ServerSecret, TokenExp),
    GenerateToken(RoomID, "q1", ServerSecret, TokenExp),
    GenerateToken(RoomID, "p1", ServerSecret, 0),
    GenerateToken("", "", ServerSecret, TokenExp),
    GenerateToken(RoomID, "p1", "s2", TokenExp) }

\* The room codes of the requests: two rooms and a code of no room.
Codes == {"A", "B", "Z"}

\* The server is up, nobody has connected.
InitUpgrade ==
  /\ snapshots = Replay(CreatedRows, ScriptTeamVote, GamePlayerIDs)
  /\ events = EventsOf(ScriptTeamVote)
  /\ game = [status |-> "in_progress", ended_at |-> FALSE, players |-> GamePlayerIDs]
  /\ pc = [c \in Clients |-> "new"]
  /\ loc = [c \in Clients |-> NoLocals]
  /\ client = [c \in Clients |-> NoClient]
  /\ rooms = <<>>
  /\ broadcast = <<>>
  /\ send = [c \in Clients |-> <<>>]
  /\ closed = [c \in Clients |-> <<>>]
  /\ delivered = [c \in Clients |-> <<>>]
  /\ crashed = FALSE
  /\ moves = 0
  /\ faults = 0
  /\ entries = [k \in RateKeys |-> <<>>]
  /\ granted = [k \in RateKeys |-> <<>>]
  /\ now = 0
  /\ shutdown = FALSE

\* Upgrade requests on both routes, the Hub's register case, the clock and
\* the shutdown signal.
NextUpgrade ==
  \/ \E c \in Clients, code \in Codes, token \in Tokens :
       HandleRoomWebSocket(c, code, token, "ip1")
  \/ \E c \in Clients, code \in Codes, p \in {"p1", "q1"} : HandleWebSocket(c, code, p)
  \/ \E c \in Clients : HubRegister(c)
  \/ Tick
  \/ Shutdown

SpecUpgrade == InitUpgrade /\ [][NextUpgrade]_vars

\* Requests of two keys through the limiter while time passes.
NextLimit ==
  \/ \E key \in RateKeys : RateLimitMiddleware(key)
  \/ Tick

SpecLimit == InitUpgrade /\ [][NextLimit]_vars

\* The sessions whose connection fails in the behaviours of SpecHub.
Leavers == {"c2"}

\* The sessions' vote handlers, the Hub coordinator and the write loops.
NextHub ==
  \/ \E c \in Clients : Connect(c, Seat[c])
  \/ \E c \in Clients : HandleMove(c, "vote", VotePayload("true", "none"))
  \/ \E c \in Clients : InsertEvent(c)
  \/ \E c \in Clients : SnapshotReadVersion(c)
  \/ \E c \in Clients : SnapshotInsert(c)
  \/ \E c \in Clients : BroadcastEvents(c)
  \/ \E c \in Clients : BroadcastState(c)
  \/ \E c \in Clients : Reply(c)
  \/ \E c \in Leavers : ReadError(c)
  \/ \E c \in Clients : HubUnregister(c)
  \/ \E c \in Clients : WritePump(c)
  \/ HubFanout

SpecHub == InitHub /\ [][NextHub]_vars

\* The sessions whose write loop runs in the behaviours of SpecEvict; the
\* other one is a slow consumer.
Writers == {"c1"}

\* A team vote in progress, both sessions connected, the store reliable.
InitEvict == InitWith(GamePlayerIDs, {ScriptTeamVote}, MaxEvictMoves, 0, {Seat}, TRUE)

\* Votes and sync_state requests of the sessions, the replies of their read
\* loops, and the Hub coordinator.
NextEvict ==
  \/ \E c \in Clients : HandleMove(c, "vote", VotePayload("true", "none"))
  \/ \E c \in Clients : HandleSyncState(c)
  \/ \E c \in Clients : InsertEvent(c)
  \/ \E c \in Clients : SnapshotReadVersion(c)
  \/ \E c \in Clients : SnapshotInsert(c)
  \/ \E c \in Clients : BroadcastEvents(c)
  \/ \E c \in Clients : BroadcastState(c)
  \/ \E c \in Clients : Reply(c)
  \/ \E c \in Writers : WritePump(c)
  \/ HubFanout

SpecEvict == InitEvict /\ [][NextEvict]_vars

\* A team vote in progress, both sessions connected, the store reliable.
InitLeave ==
  InitWith(GamePlayerIDs, {ScriptTeamVote}, MaxEvictMoves, 0, {Seat}, TRUE)

\* The steps of the read loop of session c and of the handler it runs.
ReadLoop(c) ==
  \/ HandleMove(c, "vote", VotePayload("true", "none"))
  \/ InsertEvent(c)
  \/ SnapshotReadVersion(c)
  \/ SnapshotInsert(c)
  \/ BroadcastEvents(c)
  \/ BroadcastState(c)
  \/ Reply(c)

\* The sessions vote, their connections fail, the coordinator runs.
NextLeave ==
  \/ \E c \in Clients : ReadLoop(c)
  \/ \E c \in Clients : ReadError(c)
  \/ \E c \in Clients : HubUnregister(c)
  \/ HubFanout

\* The goroutines are scheduled: a handler that can take its next step takes
\* it, the coordinator takes what is sent to it, and the connection of every
\* session fails in the end (closed by the peer, or the pong deadline).
FairLeave ==
  /\ \A c \in Clients :
       /\ WF_vars(InsertEvent(c)) /\ WF_vars(SnapshotReadVersion(c))
       /\ WF_vars(SnapshotInsert(c)) /\ WF_vars(BroadcastEvents(c))
       /\ WF_vars(BroadcastState(c)) /\ WF_vars(Reply(c))
       /\ WF_vars(ReadError(c))
       /\ WF_vars(HubUnregister(c))
  /\ WF_vars(HubFanout)

SpecLeave == InitLeave /\ [][NextLeave]_vars /\ FairLeave

(***************************************************************************)
(* Properties.                                                             *)
(***************************************************************************)
\* The engine state stored in the i-th row.
StateAt(i) == StateFromMap(snapshots[i].state_json)

\* ApplyMove is past the rules and in its persist steps.
PersistPcs == {"event", "snap_read", "snap_insert", "status", "boot_status"}

\* ApplyMove has returned an accepted move to the handler.
AcceptedPcs == {"bcast_event", "bcast_state"}

\* No ApplyMove call is between its first and its last Store call.
Quiescent == \A c \in Clients : pc[c] \notin PersistPcs

\* C1: the snapshot versions of the game are the consecutive integers from 1:
\* each row carries the version after its predecessor's, the first carries 1.
C1_VersionsConsecutive ==
  \A i \in DOMAIN snapshots : snapshots[i].version = i

\* C1 witness: a move lost the race for a version to a concurrent move and
\* its insert was refused by the unique index.
C1_Witness ==
  \E c \in Clients :
    /\ pc[c] = "reply"
    /\ loc[c].reply.message = "persist snapshot"
    /\ loc[c].nextVersion > 0
    /\ VersionTaken(snapshots, loc[c].nextVersion)

\* C2: moves of a game are serialized: every accepted move is built on the
\* state written by the previously accepted move, that is, the row of version
\* v was computed from the row of version v - 1.
C2_MovesSerialized ==
  \A i \in DOMAIN snapshots : snapshots[i].base = snapshots[i].version - 1

\* The rows written by ApplyMove proper (not CreateGame, not bootstrapAndStart).
MoveRows ==
  {i \in DOMAIN snapshots : i > 1 /\ "team_sizes" \notin DOMAIN snapshots[i].state_json}

\* C3: applying a move is atomic: once no move is between its Store calls,
\* there is one event per move snapshot, and a finished state has been
\* written only together with the status and ended-at of the game.
C3_MoveAtomic ==
  Quiescent =>
    /\ Len(events) = Cardinality(MoveRows)
    /\ (\E i \in DOMAIN snapshots : StateAt(i).status = "finished")
         => (game.status = "finished" /\ game.ended_at)

\* Every row up to version v was computed from its predecessor: no accepted
\* move's update is missing from the state of version v.
LineageComplete(v) == \A i \in 1..v : snapshots[i].base = i - 1

\* C4: the state of a sync_state response is the state of the snapshot that
\* was latest when it was read, and that state contains the update of every
\* move accepted before.
C4_SyncStateExact ==
  \A c \in Clients :
    (pc[c] = "reply" /\ loc[c].moveType = "sync_state" /\ loc[c].reply.type = "state")
      => /\ loc[c].reply.state = ToMap(StateAt(loc[c].base))
         /\ LineageComplete(loc[c].base)

VotesOf(state) ==
  IF state.phase = PhaseTeamVote THEN state.team_votes
  ELSE IF state.phase = PhaseMissionVote THEN state.mission_votes
  ELSE EmptyMap

SameVote(a, b) ==
  /\ a.phase = b.phase
  /\ a.round_index = b.round_index
  /\ a.reject_count = b.reject_count
  /\ a.proposed_team = b.proposed_team

\* C5: a vote is accepted from an actor only once per vote: no accepted vote
\* of an actor is written on top of a state of the same vote in which that
\* actor's vote is already recorded.
C5_SecondVoteRejected ==
  \A i \in DOMAIN snapshots :
    (i > 1 /\ snapshots[i].moveType = "vote" /\ snapshots[i].base > 0
       /\ SameVote(StateAt(i - 1), StateAt(snapshots[i].base)))
      => snapshots[i].by \notin DOMAIN VotesOf(StateAt(i - 1))

\* A finished state had been written when the state of version v was read.
EndedBy(v) == \E i \in 1..v : StateAt(i).status = "finished"

\* C6: a move that starts after the game has ended is answered with an error
\* and gets to no Store write.
C6_NoMoveAfterEnd ==
  \A c \in Clients :
    (loc[c].moveType \in {"vote", "action"} /\ EndedBy(loc[c].base))
      => pc[c] \notin PersistPcs \cup AcceptedPcs

\* The moves C10 lists as rejected by validation, stated on the state a move
\* was applied to: wrong phase, wrong actor, malformed payload, wrong team
\* size, non-player id.
TeamSizeOfRound(state) ==
  IF state.round_index \in DOMAIN ConfigTeamSizes
  THEN ConfigTeamSizes[state.round_index] ELSE ConfigTeamSizes[1]

InvalidMove(state, actor, moveType, payload) ==
  \/ /\ moveType = "vote"
     /\ \/ state.phase \notin {PhaseTeamVote, PhaseMissionVote}
        \/ actor \notin Range(state.player_ids)
        \/ state.phase = PhaseTeamVote /\ payload.approved = "none"
        \/ state.phase = PhaseMissionVote /\ payload.success = "none"
        \/ state.phase = PhaseMissionVote /\ actor \notin Range(state.proposed_team)
  \/ /\ moveType = "action"
     /\ payload.action = ActionProposeTeam
     /\ \/ state.phase # PhaseTeamSelection
        \/ Len(state.player_ids) = 0
        \/ actor # state.player_ids[state.leader_index + 1]
        \/ ~payload.has_team
        \/ Len(payload.team) # TeamSizeOfRound(state)
        \/ \E i \in DOMAIN payload.team : payload.team[i] \notin Range(state.player_ids)

InvalidCall(c) ==
  /\ loc[c].moveType \in {"vote", "action"}
  /\ loc[c].base > 0
  /\ StateAt(loc[c].base).phase # PhaseLobby
  /\ InvalidMove(StateAt(loc[c].base), loc[c].actor, loc[c].moveType, loc[c].payload)

\* C10: a move that validation rejects mutates nothing: no step of its
\* handler changes the snapshots, the events or the game row, and the handler
\* never gets to the persist steps.
C10_RejectedMoveMutatesNothing ==
  [][\A c \in Clients :
       (pc'[c] # pc[c] /\ (InvalidCall(c) \/ InvalidCall(c)'))
         => /\ storeVars' = storeVars
            /\ pc'[c] \notin PersistPcs \cup AcceptedPcs]_vars

\* C10 witness: a propose_team of a player who is not the leader is being
\* answered with the error, the store as the move found it.
C10_Witness ==
  \E c \in Clients :
    /\ pc[c] = "reply"
    /\ InvalidCall(c)
    /\ loc[c].reply.message = "only the leader can propose a team"
    /\ LatestRow(snapshots).version = loc[c].base


(***************************************************************************)
(* The Hub: fan-out order, slow consumers, closing the send queue.         *)
(***************************************************************************)

\* The session is in the registry, under its room.
Subscribed(c) ==
  client[c].RoomID \in DOMAIN rooms /\ c \in rooms[client[c].RoomID]

\* The broadcast envelopes the Hub has put on the session's queue, written to
\* the connection or still queued, in order (direct replies left out).
BroadcastLog(c) == SelectSeq(delivered[c] \o send[c], LAMBDA e : e.mv > 0)

IsSuffix(s, t) ==
  /\ Len(s) <= Len(t)
  /\ \A i \in DOMAIN s : s[i] = t[Len(t) - Len(s) + i]

\* Whatever two sequences have in common is in the same relative order.
SameOrder(s, t) ==
  \A i, j \in DOMAIN s, k, l \in DOMAIN t :
    (i < j /\ s[i] = t[k] /\ s[j] = t[l]) => k < l

\* C7: any two sessions receive the broadcast envelopes they have in common
\* in the same order, and of two sessions that are both still in the room the
\* one that joined later has received exactly the tail of what the other has
\* received, also when the moves were handled concurrently.
C7_SameBroadcastOrder ==
  \A c, d \in Clients :
    /\ SameOrder(BroadcastLog(c), BroadcastLog(d))
    /\ (pc[c] # "new" /\ pc[d] # "new" /\ Subscribed(c) /\ Subscribed(d)) =>
         \/ IsSuffix(BroadcastLog(c), BroadcastLog(d))
         \/ IsSuffix(BroadcastLog(d), BroadcastLog(c))

\* Two moves handled concurrently (the second written from a state older than
\* the first's) were broadcast, and two sessions of the room have been written
\* the same four envelopes.
C7_Witness ==
  /\ \E i \in DOMAIN snapshots : snapshots[i].base < snapshots[i].version - 1
  /\ \E c, d \in Clients :
       /\ c # d /\ Subscribed(c) /\ Subscribed(d)
       /\ Len(delivered[c]) = 4
       /\ delivered[c] = delivered[d]
       /\ \A i \in 1..4 : delivered[c][i].mv > 0

\* One fan-out step of the coordinator, as seen from outside.
FanoutStep ==
  (Len(broadcast) > 0 /\ broadcast' = Tail(broadcast)) =>
    LET msg == Head(broadcast)
    IN  \A c \in Clients :
          IF c \in Targets(msg)
          THEN IF Len(send[c]) < SendCap
               THEN /\ send'[c] = Append(send[c], msg.envelope)
                    /\ closed'[c] = closed[c]
                    /\ c \in rooms'[msg.room]
               ELSE /\ send'[c] = send[c]
                    /\ closed'[c] = Append(closed[c], "evict")
                    /\ c \notin rooms'[msg.room]
          ELSE send'[c] = send[c] /\ closed'[c] = closed[c]

\* C8: the coordinator can always take the next broadcast message, whatever
\* the state of the sessions' queues; taking it, it appends the envelope to
\* the queue of every target session that has room, and closes the queue of
\* every target session whose queue is full and removes it from the room.
C8_FanoutNeverBlocks ==
  /\ []((Len(broadcast) > 0 /\ ~crashed) => ENABLED HubFanout)
  /\ [][FanoutStep]_vars

\* A session was evicted with a full queue (its read loop still running) while
\* another session of the room was given the envelope the first one missed.
C8_Witness ==
  \E c, d \in Clients :
    /\ c # d
    /\ closed[c] = <<"evict">> /\ pc[c] = "idle" /\ ~Subscribed(c)
    /\ Len(send[c]) = SendCap
    /\ Subscribed(d) /\ Len(send[d]) > 0
    /\ \A i \in DOMAIN send[c] : send[c][i] # send[d][Len(send[d])]
    /\ \A i \in DOMAIN delivered[c] : delivered[c][i] # send[d][Len(send[d])]

\* C9: a send queue is never closed twice; the queue of a session that has
\* connected is closed if and only if the session is no longer in the room;
\* a session whose Unregister was processed has its queue closed (once).
C9_ClosedExactlyOnce ==
  \A c \in Clients :
    /\ Len(closed[c]) <= 1
    /\ pc[c] # "new" => (Len(closed[c]) = 1 <=> ~Subscribed(c))
    /\ pc[c] = "gone" => Len(closed[c]) = 1

\* Unregister was processed for a session that had been evicted before.
C9_Witness ==
  \E c \in Clients : pc[c] = "gone" /\ closed[c] = <<"evict">>

(***************************************************************************)
(* Error replies and the order of a move's envelopes.                      *)
(***************************************************************************)

\* ApplyMove has just returned an error to the vote or action handler of c.
MoveFailsNow(c) ==
  /\ loc'[c].moveType \in {"vote", "action"}
  /\ loc[c].reply.message = ""
  /\ loc'[c].reply.message # ""

\* C11: when ApplyMove returns an error for a vote or an action, the handler
\* puts nothing on the Hub's broadcast channel and goes on to the reply alone;
\* the reply offers the error envelope to the sender's own queue (appended when
\* the queue has room) and touches no other queue, and the handler is done.
C11_ErrorToSenderOnly ==
  [][\A c \in Clients :
       /\ MoveFailsNow(c) =>
            /\ pc'[c] = "reply"
            /\ loc'[c].reply.type = "error"
            /\ broadcast' = broadcast
            /\ send' = send
       /\ (pc[c] = "reply" /\ loc[c].reply.type = "error" /\ pc'[c] # "reply") =>
            /\ pc'[c] = "idle"
            /\ broadcast' = broadcast
            /\ \A d \in Clients \ {c} : send'[d] = send[d]
            /\ crashed' \/ send'[c] = IF Len(send[c]) < SendCap
                                      THEN Append(send[c], loc[c].reply)
                                      ELSE send[c]]_vars

\* A move failed on the store after its rules had accepted it: the sender has
\* the error in its queue, nothing is on the broadcast channel and no other
\* session has been given anything.
C11_Witness ==
  \E c \in Clients :
    /\ Len(send[c]) > 0
    /\ send[c][Len(send[c])] = ErrorEnvelope("persist snapshot", 0)
    /\ pc[c] = "idle"
    /\ broadcast = <<>>
    /\ \A d \in Clients \ {c} : send[d] = <<>>

\* In a sequence of envelopes, the event of a move comes before its state.
EventsBeforeState(log) ==
  \A i, j \in DOMAIN log :
    (log[i].mv > 0 /\ log[i].mv = log[j].mv
       /\ log[i].type = "event" /\ log[j].type = "state") => i < j

\* C12: on the Hub's broadcast channel, in what every session has been
\* enqueued and in what has been written to its connection, the event envelope
\* of an accepted move comes before the state envelope of the same move.
C12_EventsBeforeState ==
  /\ EventsBeforeState([i \in DOMAIN broadcast |-> broadcast[i].envelope])
  /\ \A c \in Clients :
       /\ EventsBeforeState(delivered[c] \o send[c])
       /\ EventsBeforeState(delivered[c])

\* Two moves were handled concurrently and a session has been enqueued the
\* event of the one, then the event of the other, then the two states.
C12_Witness ==
  \E c \in Clients :
    LET log == BroadcastLog(c)
    IN  /\ Len(log) = 4
        /\ log[1].type = "event" /\ log[2].type = "event"
        /\ log[3].type = "state" /\ log[4].type = "state"
        /\ log[1].mv # log[2].mv
        /\ {log[3].mv, log[4].mv} = {log[1].mv, log[2].mv}

(***************************************************************************)
(* The rules of the engine.                                                *)
(***************************************************************************)

\* The rows an accepted propose_team wrote.
ProposalRows ==
  {i \in DOMAIN snapshots :
     /\ snapshots[i].moveType = "action"
     /\ StateAt(i).phase = PhaseTeamVote}

\* C13: the team of every accepted proposal has the size the default table
\* gives for the game's player count and the round.
C13_TeamSizeFromTable ==
  \A i \in ProposalRows :
    LET state == StateAt(i)
    IN  Len(state.proposed_team) =
          DefaultTeamSizesForPlayerCount(Len(state.player_ids))[state.round_index]

CountOf(seq, x) == Cardinality({i \in DOMAIN seq : seq[i] = x})

\* The rows written by the mission vote that resolved a mission: the writer
\* had loaded a mission vote and the row has one more mission result.
ResolutionRows ==
  {i \in DOMAIN snapshots :
     /\ snapshots[i].moveType = "vote"
     /\ snapshots[i].base > 0
     /\ StateAt(snapshots[i].base).phase = PhaseMissionVote
     /\ Len(StateAt(i).mission_results)
          = Len(StateAt(snapshots[i].base).mission_results) + 1}

\* C14: the state a mission resolution writes is finished with winner evil
\* when three missions have failed, else finished with winner good when three
\* missions have succeeded, and else in progress without a winner.
C14_EndsAtThreshold ==
  \A i \in ResolutionRows :
    LET state == StateAt(i)
        fails == CountOf(state.mission_results, "fail")
        successes == CountOf(state.mission_results, "success")
    IN  IF fails >= 3
        THEN state.status = "finished" /\ state.phase = PhaseFinished
               /\ state.winner = "evil"
        ELSE IF successes >= 3
        THEN state.status = "finished" /\ state.phase = PhaseFinished
               /\ state.winner = "good"
        ELSE state.status = "in_progress" /\ state.phase # PhaseFinished
               /\ state.winner = ""

\* The deciding vote of round 5 failed the third mission: evil has won.
C14_Witness ==
  \E i \in ResolutionRows :
    /\ CountOf(StateAt(i).mission_results, "fail") = 3
    /\ CountOf(StateAt(i).mission_results, "success") = 2
    /\ StateAt(i).winner = "evil"

\* The state the writer of row i had loaded.
BaseOf(i) == StateAt(snapshots[i].base)

\* Row i was written by the vote that completed a team vote.
TallyRow(i) ==
  /\ snapshots[i].moveType = "vote"
  /\ snapshots[i].base > 0
  /\ BaseOf(i).phase = PhaseTeamVote
  /\ StateAt(i).phase # PhaseTeamVote

ApprovalRow(i) == TallyRow(i) /\ StateAt(i).phase = PhaseMissionVote

RejectionRow(i) == TallyRow(i) /\ StateAt(i).phase = PhaseTeamSelection

\* The team rejections in a row since the last approval, along the states the
\* writers had loaded.
RECURSIVE ConsecutiveRejections(_)
ConsecutiveRejections(i) ==
  IF snapshots[i].base = 0 \/ ApprovalRow(i) THEN 0
  ELSE IF RejectionRow(i) THEN ConsecutiveRejections(snapshots[i].base) + 1
  ELSE ConsecutiveRejections(snapshots[i].base)

\* C15: in every state written, reject_count is the number of consecutive
\* team rejections since the last team approval.
C15_RejectCountSinceApproval ==
  \A i \in DOMAIN snapshots :
    snapshots[i].base > 0 /\ StateAt(i).phase # PhaseLobby
      => StateAt(i).reject_count = ConsecutiveRejections(i)

\* Session c is in an accepted vote on a state in a team vote.
TeamVoteAccepted(c) ==
  /\ pc[c] \in PersistPcs \cup AcceptedPcs
  /\ loc[c].moveType = "vote"
  /\ StateAt(loc[c].base).phase = PhaseTeamVote

\* The votes of the loaded state with the vote of the move.
VotesWith(c) ==
  MapPut(StateAt(loc[c].base).team_votes, loc[c].actor,
         IF loc[c].payload.approved = "true" THEN "approve" ELSE "reject")

\* C16: a team vote is tallied exactly when the collected votes, the new one
\* included, are as many as the players; the team is then approved (phase
\* mission_vote, team_votes cleared, team_approved emitted) if and only if
\* more than half of the players approved. Before that the vote is only
\* recorded.
C16_TallyWhenAllVoted ==
  \A c \in Clients :
    TeamVoteAccepted(c) =>
      LET n == Len(StateAt(loc[c].base).player_ids)
          votes == VotesWith(c)
          complete == Cardinality(DOMAIN votes) = n
          majority == 2 * CountValue(votes, "approve") > n
          next == loc[c].next
      IN  /\ loc[c].event \in {"team_approved", "team_rejected"} <=> complete
          /\ loc[c].event = "team_approved" <=> complete /\ majority
          /\ loc[c].event = "team_approved"
               => next.phase = PhaseMissionVote /\ next.team_votes = EmptyMap
          /\ next.phase = PhaseMissionVote => loc[c].event = "team_approved"
          /\ ~complete
               => /\ loc[c].event = "vote_recorded"
                  /\ next.phase = PhaseTeamVote
                  /\ next.team_votes = votes

\* A vote completed the team vote with three approvals of five, and the state
\* in mission_vote has been written.
C16_Witness ==
  \E c \in Clients :
    /\ TeamVoteAccepted(c) /\ pc[c] \in AcceptedPcs
    /\ loc[c].event = "team_approved"
    /\ CountValue(VotesWith(c), "approve") = 3
    /\ StateAt(loc[c].next.version).phase = PhaseMissionVote

\* C17: a completed team vote that does not approve the team adds one to
\* reject_count, moves leader_index to the next player modulo the number of
\* players, returns to team_selection and clears proposed_team and team_votes.
C17_RejectionRotatesLeader ==
  \A c \in Clients :
    TeamVoteAccepted(c) /\ loc[c].event = "team_rejected" =>
      LET state == StateAt(loc[c].base)
          next == loc[c].next
      IN  /\ Cardinality(DOMAIN VotesWith(c)) = Len(state.player_ids)
          /\ next.reject_count = state.reject_count + 1
          /\ next.leader_index
               = (state.leader_index + 1) % Len(state.player_ids)
          /\ next.phase = PhaseTeamSelection
          /\ next.proposed_team = <<>>
          /\ next.team_votes = EmptyMap

\* The second team in a row was rejected, by three votes to two, and the state
\* written has reject_count 2 and the third player as leader.
C17_Witness ==
  \E i \in DOMAIN snapshots :
    /\ RejectionRow(i)
    /\ BaseOf(i).reject_count = 1 /\ BaseOf(i).leader_index = 1
    /\ StateAt(i).reject_count = 2 /\ StateAt(i).leader_index = 2
    /\ StateAt(i).proposed_team = <<>>

\* The place of a status in waiting -> in_progress -> finished.
StatusRank(status) ==
  CASE status = "waiting" -> 0
    [] status = "in_progress" -> 1
    [] status = "finished" -> 2

\* C18: the status of the game row never goes back along waiting ->
\* in_progress -> finished, and whenever it is finished ended_at is set.
C18_StatusForwardOnly ==
  /\ [](game.status = "finished" => game.ended_at)
  /\ [][StatusRank(game'.status) >= StatusRank(game.status)]_vars

\* C19: the state envelope a sync_state is answered with carries the version
\* of the latest snapshot, the one its state was read from.
C19_SyncVersionIsLatest ==
  \A c \in Clients :
    /\ pc[c] = "reply"
    /\ loc[c].moveType = "sync_state"
    /\ loc[c].reply.type = "state"
    => loc[c].reply.version = snapshots[loc[c].base].version

\* The snapshot insert of session c is about to collide on the unique index.
Collides(c) ==
  pc[c] = "snap_insert" /\ VersionTaken(snapshots, loc[c].nextVersion)

\* C20: a snapshot write that collides on the unique (game_id, version) index
\* is retried: the writer goes back to reading the max version, with its move
\* unchanged.
C20_CollisionRetried ==
  [][\A c \in Clients :
       Collides(c) /\ pc'[c] # pc[c]
         => pc'[c] = "snap_read" /\ loc'[c] = loc[c]]_vars

\* Session c is handling a propose_team on a started game.
ProposalOf(c) ==
  /\ pc[c] \in PersistPcs \cup AcceptedPcs \cup {"reply"}
  /\ loc[c].moveType = "action"
  /\ loc[c].payload.action = ActionProposeTeam
  /\ ~loc[c].boot

\* The leader of the state session c had loaded: player_ids[leader_index].
LoadedLeader(c) ==
  LET state == StateAt(loc[c].base)
  IN  state.player_ids[state.leader_index + 1]

\* C21: a propose_team is accepted only from the leader of the state it was
\* applied to; in team_selection every other actor is answered "only the
\* leader can propose a team" (unless the state could not be loaded at all).
C21_OnlyLeaderProposes ==
  \A c \in Clients :
    ProposalOf(c) =>
      /\ pc[c] # "reply" => loc[c].actor = LoadedLeader(c)
      /\ ( /\ pc[c] = "reply"
           /\ StateAt(loc[c].base).phase = PhaseTeamSelection
           /\ loc[c].actor # LoadedLeader(c)
           /\ loc[c].reply.message # "get state" )
         => loc[c].reply.message = "only the leader can propose a team"

\* In the game of six led by p3, p1 proposed a team and was refused, and the
\* proposal of p3 was accepted.
C21_Witness ==
  /\ \E c \in Clients :
       /\ ProposalOf(c) /\ pc[c] = "reply"
       /\ loc[c].actor = "p1" /\ LoadedLeader(c) = "p3"
       /\ loc[c].reply.message = "only the leader can propose a team"
  /\ \E i \in DOMAIN snapshots :
       /\ snapshots[i].moveType = "action" /\ snapshots[i].by = "p3"
       /\ StateAt(i).phase = PhaseTeamVote

\* Session c is handling a vote on a state in a mission vote.
MissionVoteOf(c) ==
  /\ pc[c] \in PersistPcs \cup AcceptedPcs \cup {"reply"}
  /\ loc[c].moveType = "vote"
  /\ StateAt(loc[c].base).phase = PhaseMissionVote

\* C22: in mission_vote a vote is accepted only from a member of the proposed
\* team of the state it was applied to; a vote of another player is answered
\* with an error, no snapshot is written from it and no state records a
\* mission vote of a player outside the team.
C22_OnlyTeamVotesOnMission ==
  /\ \A c \in Clients :
       MissionVoteOf(c) /\ loc[c].actor \notin Range(StateAt(loc[c].base).proposed_team)
         => pc[c] = "reply" /\ loc[c].reply.type = "error"
  /\ \A i \in DOMAIN snapshots :
       /\ ( snapshots[i].moveType = "vote" /\ snapshots[i].base > 0
            /\ BaseOf(i).phase = PhaseMissionVote )
          => snapshots[i].by \in Range(BaseOf(i).proposed_team)
       /\ DOMAIN StateAt(i).mission_votes \subseteq Range(StateAt(i).proposed_team)

\* The mission vote of p1, on the team, is written; the mission vote of p5,
\* not on the team, is refused.
C22_Witness ==
  /\ \E c \in Clients :
       /\ MissionVoteOf(c) /\ pc[c] = "reply" /\ loc[c].actor = "p5"
       /\ loc[c].payload.success # "none"
       /\ loc[c].reply.message = "only team members can submit mission vote"
  /\ \E i \in DOMAIN snapshots :
       /\ snapshots[i].by = "p1" /\ BaseOf(i).phase = PhaseMissionVote
       /\ "p1" \in DOMAIN StateAt(i).mission_votes

\* Session c is handling a start_game on the lobby snapshot of a created game.
StartOf(c) ==
  /\ pc[c] \in PersistPcs \cup AcceptedPcs \cup {"reply"}
  /\ loc[c].moveType = "action"
  /\ loc[c].payload.action = ActionStartGame
  /\ StateAt(loc[c].base).phase = PhaseLobby

\* C23: start_game on a created game passes the player-count check if and
\* only if the game has 5 to 10 players: with fewer or more it is answered
\* "player count not in range" and nothing is written, with 5 to 10 it is not
\* refused for the count and its initial snapshot can be written.
C23_StartNeedsFiveToTen ==
  LET n == Len(game.players)
  IN  /\ \A c \in Clients :
           StartOf(c) /\ loc[c].reply.message # "get state" =>
             IF n >= 5 /\ n <= 10
             THEN loc[c].reply.message # "player count not in range"
             ELSE /\ pc[c] = "reply"
                  /\ loc[c].reply.message = "player count not in range"
      /\ ~(n >= 5 /\ n <= 10) =>
           /\ Len(snapshots) = 1
           /\ game.status = "waiting"

\* A game of ten players has been started: the initial snapshot is written
\* and the game row is in progress.
C23_Witness ==
  /\ Len(game.players) = 10
  /\ game.status = "in_progress"
  /\ \E i \in DOMAIN snapshots :
       StateAt(i).phase = PhaseTeamSelection /\ Len(StateAt(i).player_ids) = 10

\* The rows written by a start_game on the lobby snapshot.
StartRows ==
  {i \in DOMAIN snapshots :
     /\ snapshots[i].base > 0
     /\ snapshots[i].moveType = "action"
     /\ BaseOf(i).phase = PhaseLobby}

\* C24: the state an accepted start_game writes gives every id of player_ids
\* exactly one role, evil to two players in a game of 5 or 6 and to three in
\* a game of 7 or more, good to all the others.
C24_RolesDealt ==
  \A i \in StartRows :
    LET state == StateAt(i)
        n == Len(state.player_ids)
    IN  /\ DOMAIN state.roles = Range(state.player_ids)
        /\ Cardinality(Range(state.player_ids)) = n
        /\ \A p \in DOMAIN state.roles : state.roles[p] \in {"evil", "good"}
        /\ CountValue(state.roles, "evil") = (IF n \in {5, 6} THEN 2 ELSE 3)
        /\ CountValue(state.roles, "good") = n - (IF n \in {5, 6} THEN 2 ELSE 3)

\* A game of seven has been started with three evil and four good players.
C24_Witness ==
  \E i \in StartRows :
    /\ Len(StateAt(i).player_ids) = 7
    /\ CountValue(StateAt(i).roles, "evil") = 3
    /\ CountValue(StateAt(i).roles, "good") = 4

\* The sessions registered in the room of a fan-out message, the excluded
\* one left out.
RoomAudience(msg) ==
  {c \in DOMAIN send :
     /\ msg.room \in DOMAIN rooms
     /\ c \in rooms[msg.room]
     /\ c # msg.exclude}

\* C25: the coordinator, taking a message for room R, puts the envelope on the
\* queue of every session that is in R's set at that moment and is not the
\* excluded session (a session whose queue is full is evicted instead), and
\* leaves the queue of the excluded session and of every session of another
\* room or not yet registered as it was.
C25_FanoutToRoomOnly ==
  [][(Len(broadcast) > 0 /\ broadcast' = Tail(broadcast)) =>
       LET msg == Head(broadcast)
       IN  \A c \in DOMAIN send :
             IF c \in RoomAudience(msg)
             THEN \/ send'[c] = Append(send[c], msg.envelope)
                  \/ Len(send[c]) >= SendCap /\ Len(closed'[c]) > Len(closed[c])
             ELSE send'[c] = send[c] /\ closed'[c] = closed[c]]_vars

\* A chat message of c1 was fanned out while all three sessions were
\* registered: c2, in the room of c1, has it; c1 and c3 have nothing.
C25_Witness ==
  /\ \A c \in DOMAIN send : Subscribed(c)
  /\ Len(broadcast) = 0
  /\ \E i \in DOMAIN send["c2"] : send["c2"][i].event = "chat"
  /\ send["c1"] = <<>> /\ delivered["c1"] = <<>>
  /\ send["c3"] = <<>> /\ delivered["c3"] = <<>>
  /\ client["c1"].RoomID = client["c2"].RoomID
  /\ client["c3"].RoomID # client["c1"].RoomID


\* The sessions in the Hub's sets.
Registered == UNION {rooms[r] : r \in DOMAIN rooms}

\* The token of a request verifies at the time of the request, its room is
\* the room of the requested code and its player belongs to that room.
TokenAdmits(token, code) ==
  LET v == VerifyToken(token, ServerSecret, now)
  IN  /\ v.err = ""
      /\ code \in DOMAIN RoomByCode
      /\ RoomByCode[code] = v.claims.room_id
      /\ v.claims.room_player_id \in RoomPlayers[RoomByCode[code]]

\* C26: an upgrade request is accepted only when its token verifies for the
\* room of the requested code and for a player of that room, every other
\* request is answered 401, and only sessions of accepted requests are added
\* to a room's set.
C26_RegisteredOnlyWithToken ==
  [][\A c \in DOMAIN pc :
       /\ (pc[c] = "new" /\ pc'[c] # "new") =>
            IF TokenAdmits(client'[c].token, client'[c].code)
            THEN pc'[c] = "register"
            ELSE pc'[c] = "refused" /\ client'[c].status = 401
       /\ (c \in Registered' /\ c \notin Registered) => pc[c] = "register"]_vars


\* The claims a token is generated for in the behaviours of SpecUpgrade.
ClaimsSigned ==
  {[room_id |-> RoomID, room_player_id |-> "p1", exp |-> TokenExp],
   [room_id |-> OtherRoomID, room_player_id |-> "q1", exp |-> TokenExp]}

\* The session presented the token generated for these claims with this key.
Presented(c, cl, secret) ==
  /\ pc[c] # "new"
  /\ client[c].route = "room"
  /\ client[c].token = GenerateToken(cl.room_id, cl.room_player_id, secret, cl.exp)

\* C28: a token generated with one secret never verifies with another one,
\* whatever the claims and the time; and a session that presented a token
\* generated with a secret that is not the server's was answered 401 and is
\* in no room's set.
C28_WrongSecretRejected ==
  /\ \A signing \in Secrets, cl \in ClaimsSigned :
       \A verifying \in Secrets \ {signing} :
         VerifyToken(GenerateToken(cl.room_id, cl.room_player_id, signing, cl.exp),
                     verifying, now).err # ""
  /\ \A c \in DOMAIN pc, s \in Secrets \ {ServerSecret}, cl \in ClaimsSigned :
       Presented(c, cl, s) =>
         /\ pc[c] = "refused"
         /\ client[c].status = 401
         /\ c \notin Registered

\* C28 witness: the token of player p1 of room A signed with the other key
\* was refused with 401 on the code of its room, while the token for the same
\* claims signed with the server's key has been accepted and registered.
C28_Witness ==
  LET cl == [room_id |-> RoomID, room_player_id |-> "p1", exp |-> TokenExp]
  IN  /\ Presented("c1", cl, "s2")
      /\ client["c1"].code = "A"
      /\ client["c1"].status = 401
      /\ Presented("c2", cl, ServerSecret)
      /\ client["c2"].code = "A"
      /\ "c2" \in Registered


\* C30: once shutdown has begun no session is added to any room's set.
C30_RegisterFailsClosed ==
  [][shutdown => Registered' \subseteq Registered]_vars


\* The number of requests of a key that were allowed in the window of length
\* RateWindow that ends at t.
AllowedInWindow(key, t) ==
  Cardinality({i \in DOMAIN granted[key] :
                 granted[key][i] > t - RateWindow /\ granted[key][i] <= t})

\* C27: no window of length RateWindow holds more than RateLimit allowed
\* requests of one key, and the next request of a key is denied exactly when
\* RateLimit requests of that key were allowed in the current window,
\* whatever the other keys have done.
C27_SlidingWindowLimit ==
  \A key \in RateKeys :
    /\ \A t \in 0..MaxTime : AllowedInWindow(key, t) <= RateLimit
    /\ Allow(entries, key, now).allowed <=> AllowedInWindow(key, now) < RateLimit
    /\ \A other \in RateKeys \ {key} :
         Allow(entries, key, now).entries[other] = entries[other]

\* C27 witness: one key has been allowed RateLimit requests in an earlier
\* window and again in the current one and is now denied, while the other
\* key, with one request allowed, is still allowed.
C27_Witness ==
  /\ Len(granted["ip1"]) = 2 * RateLimit
  /\ AllowedInWindow("ip1", now) = RateLimit
  /\ ~Allow(entries, "ip1", now).allowed
  /\ Len(granted["ip2"]) = 1
  /\ Allow(entries, "ip2", now).allowed


\* C29: for the state of every snapshot of the game, ToMap followed by
\* StateFromMap gives the state back.
C29_SnapshotRoundTrip ==
  \A i \in DOMAIN snapshots : FromToMap(StateAt(i)) = StateAt(i)


\* C31: the state a mission resolution writes has the next round, the next
\* leader and the phase team_selection when the game goes on, and the round
\* and the leader of the state before the resolution when the game ends.
C31_RoundAdvancesOnlyWhenOpen ==
  \A i \in ResolutionRows :
    LET before == BaseOf(i)
        after == StateAt(i)
    IN  IF after.status = "finished"
        THEN /\ after.round_index = before.round_index
             /\ after.leader_index = before.leader_index
        ELSE /\ after.round_index = before.round_index + 1
             /\ after.leader_index
                  = (before.leader_index + 1) % Len(before.player_ids)
             /\ after.phase = PhaseTeamSelection


\* The rows written by accepted moves, start_game included: every row but
\* the one CreateGame wrote.
AcceptedMoveRows == {i \in DOMAIN snapshots : snapshots[i].base > 0}

\* C32: once no move is between its Store calls the game has as many events
\* as accepted moves, start_game included, each with its one snapshot.
C32_OneEventPerAcceptedMove ==
  Quiescent => Len(events) = Cardinality(AcceptedMoveRows)


\* The edges of the phase machine.
PhaseEdges ==
  {<<PhaseLobby, PhaseTeamSelection>>,
   <<PhaseTeamSelection, PhaseTeamVote>>,
   <<PhaseTeamVote, PhaseTeamSelection>>,
   <<PhaseTeamVote, PhaseMissionVote>>,
   <<PhaseMissionVote, PhaseTeamSelection>>,
   <<PhaseMissionVote, PhaseFinished>>}

\* C33: the first snapshot of a game is in lobby, and from one snapshot to
\* the next the phase stays or follows an edge of the phase machine; the
\* edge out of lobby is taken by start_game only, and no edge leaves finished.
C33_PhaseFollowsEdges ==
  /\ StateAt(1).phase = PhaseLobby
  /\ \A i \in DOMAIN snapshots :
       i > 1 =>
         LET from == StateAt(i - 1).phase
             to == StateAt(i).phase
         IN  /\ from = to \/ <<from, to>> \in PhaseEdges
             /\ from = PhaseLobby =>
                  /\ snapshots[i].moveType = "action"
                  /\ to = PhaseTeamSelection


\* C34: a sender-only reply is never sent on a send queue that has been
\* closed, and no step of any task appends to a closed queue.
C34_NoSendAfterClose ==
  [][\A c \in DOMAIN pc :
       /\ (pc[c] = "reply" /\ pc'[c] = "idle") => Len(closed[c]) = 0
       /\ Len(closed[c]) > 0 => Len(send'[c]) <= Len(send[c])]_vars


\* Row k was written by an accepted propose_team.
ProposalRow(k) ==
  /\ snapshots[k].moveType = "action"
  /\ StateAt(k).phase = PhaseTeamVote

\* The last row up to version v that satisfies P, 0 for none.
LastRow(v, P(_)) ==
  LET ks == {k \in 1..v : P(k)}
  IN  IF ks = {} THEN 0 ELSE CHOOSE k \in ks : \A other \in ks : other <= k

\* The proposal the writer of row i voted on, and the approval that opened
\* the mission the writer of row i voted in.
ProposalVotedOn(i) == LastRow(snapshots[i].base, ProposalRow)
MissionVotedIn(i) == LastRow(snapshots[i].base, ApprovalRow)

\* C35: no two accepted votes complete the vote on the same proposal (one
\* team_approved or team_rejected per proposal), and no two accepted votes
\* resolve the same mission (one result, one mission_resolved or game_ended
\* per mission).
C35_ResolvedOnce ==
  /\ \A i, j \in DOMAIN snapshots :
       (i # j /\ TallyRow(i) /\ TallyRow(j)) =>
         ProposalVotedOn(i) # ProposalVotedOn(j)
  /\ \A i, j \in ResolutionRows :
       i # j => MissionVotedIn(i) # MissionVotedIn(j)


\* The rows of the started game: every row but the lobby row.
StartedRows == {i \in DOMAIN snapshots : StateAt(i).phase # PhaseLobby}

\* C36: at most one start_game is accepted for a game, and all snapshots of
\* the started game have the same roles and the same player_ids.
C36_StartedOnce ==
  /\ Cardinality(StartRows) <= 1
  /\ \A i, j \in StartedRows :
       /\ StateAt(i).roles = StateAt(j).roles
       /\ StateAt(i).player_ids = StateAt(j).player_ids


\* Some player has a move that the rules accept in state s: a vote, or the
\* proposal of the first players of the game as the team of the round.
SomeMoveAccepted(s) ==
  \E p \in Range(s.player_ids) :
    \/ \E pl \in VotePayloads : Rules(s, p, "vote", pl).err = ""
    \/ Rules(s, p, "action",
             ProposePayload(SubSeq(s.player_ids, 1, TeamSizeOfRound(s)))).err = ""

\* C37: the latest state of a game in progress is never stuck: in
\* team_selection, team_vote and mission_vote some player has a move that
\* the rules accept.
C37_NeverStuck ==
  LET s == GetState(snapshots)
  IN  (s.status = "in_progress"
         /\ s.phase \in {PhaseTeamSelection, PhaseTeamVote, PhaseMissionVote})
        => SomeMoveAccepted(s)


\* The state envelopes of accepted moves written to the connection of c.
StatesDelivered(c) ==
  SelectSeq(delivered[c], LAMBDA e : e.type = "state" /\ e.mv > 0)

\* C38: the state envelopes a session has received are in the order of their
\* versions: none has a lower version than one received before it.
C38_StatesInVersionOrder ==
  \A c \in DOMAIN delivered :
    \A i, j \in DOMAIN StatesDelivered(c) :
      i < j => StatesDelivered(c)[i].version <= StatesDelivered(c)[j].version


\* C39: the registry holds no room whose set of sessions is empty.
C39_NoEmptyRoom ==
  \A r \in DOMAIN rooms : rooms[r] # {}


\* The coordinator has processed the Unregister of c and c is in no room.
Removed(c) == pc[c] = "gone" /\ c \notin Registered

====
